---- MODULE Spec2Model ----
(***************************************************************************)
(* The game economy of Mobile_Sports_DM_Resource_Economy_Management.       *)
(*                                                                         *)
(* The repository holds four wallet implementations, each its own          *)
(* program:                                                                *)
(*   - Logging_Infrastructure/complete_economic_system.py:                 *)
(*     IntegratedEconomicSystem over GameStateManager (save file, backups, *)
(*     rollback stack, checkpoints, transaction log);                      *)
(*   - Logging_Infrastructure/logger_function.py: PlayerWallet;            *)
(*   - backend/app/services/wallet_service.py: WalletService over the      *)
(*     wallets and audit_logs tables;                                      *)
(*   - Logging_Infrastructure/economic_dashboard_phase3.py:                *)
(*     EconomicMonitoringSystem over PlayerWallet and EconomicMetrics.     *)
(* A behaviour is a run of one of them (variable program); the variables   *)
(* of the others keep their initial values.                                *)
(*                                                                         *)
(* Left out of a saved game state: the "timestamp" and "version" keys      *)
(* (written by _get_game_state, never read back by load_game), and of a    *)
(* wallet: "player_id" (equal to its key), "earn_rates" (constant zeros)   *)
(* and "created_at".  Left out of a transaction record: transaction_id,    *)
(* timestamp and source.  Balances are integers.                           *)
(***************************************************************************)
EXTENDS Integers, Sequences, FiniteSets, TLC

----------------------------------------------------------------------------
(* Bounds of the model *)

\* an earn is issued only while the balance it produces stays within MaxBalance
MaxBalance == 3
\* the clock (in seconds) runs from 0 to MaxClock
MaxClock == 1
\* process_transaction is issued only while the transaction log holds fewer records
MaxJournal == 2
\* create_player is issued only while fewer wallets exist (or to overwrite one)
MaxPlayers == 2
\* in Spec, a call that pushes a backup is issued only while the rollback stack
\* holds fewer entries (SpecStack lets the stack fill)
MaxStack == 1
\* the history backed_up keeps the latest MaxUndo pre-transaction states
MaxUndo == 2
\* the weeks of the metrics engine run from 1 to MaxWeek
MaxWeek == 3
\* track_transaction is issued only while the currency's history holds fewer records
MaxHistory == 2
\* detect_inflation is issued only while the currency holds fewer inflation rates
MaxAlerts == 2
\* the weeks pass only up to this week while the analyses of the summary run
MaxSummaryWeek == 4
\* track_contract_bonus is issued only while the player holds fewer bonus records
MaxBonuses == 2

(* Program constants *)

\* GameStateManager.max_rollback_states
max_rollback_states == 10

----------------------------------------------------------------------------
VARIABLES
    program,               \* which of the four programs this run is
    now,                   \* datetime.now(), in whole seconds
    result,                \* the last call and what it returned
    \* complete_economic_system: IntegratedEconomicSystem / GameStateManager
    wallets,               \* self.wallets: normalized id -> wallet
    metrics,               \* self.metrics
    main_save_file,        \* game_state.json: <<>> (no file) or <<game state>>
    backup_dir,            \* backups/: backup file name -> game state
    checkpoint_dir,        \* checkpoints/: checkpoint name -> game state
    rollback_stack,        \* state_manager.rollback_stack: backup file names
    transaction_log_file,  \* transaction_log.json: log["transactions"]
    old_backup,            \* the name _create_backup popped in the last call: <<>> or <<name>>
    last_transaction,      \* history: the game state before and after the last
                           \* committed process_transaction since the last
                           \* rollback (or the start), <<>> when there is none
    backed_up,             \* history: the game states before the latest successful
                           \* process_transaction calls with allow_rollback, made in
                           \* a row and not rolled back yet (at most MaxUndo)
    read_only,             \* the paths the process cannot write: a subset of Paths
    \* logger_function: one PlayerWallet
    balances,              \* self.balances
    coaching_credit_cap,   \* self.coaching_credit_cap
    console,               \* the records log_transaction printed
    \* backend: WalletService
    db_wallets,            \* table wallets: user_id -> row
    audit_logs,            \* table audit_logs
    sessions,              \* the requests being served: request -> its Session and
                           \* the position of its handler
    \* economic_dashboard_phase3: EconomicMonitoringSystem / EconomicMetrics
    week,                  \* the ISO week of datetime.now()
    monitor_wallets,       \* EconomicMonitoringSystem.wallets: player_id -> PlayerWallet
    transaction_history,   \* metrics.transaction_history: currency -> records
    weekly_deltas,         \* metrics.weekly_deltas: week -> currency -> delta
    resource_distribution, \* metrics.resource_distribution: currency -> player -> amount
    inflation_rates,       \* metrics.inflation_rates: currency -> rate records
    active_alerts,         \* metrics.active_alerts
    alert_history,         \* metrics.alert_history
    contract_bonuses,      \* metrics.contract_bonuses: player -> bonus type -> amount
    bonus_performance,     \* metrics.bonus_performance: player -> records
    bonus_efficacy_scores  \* metrics.bonus_efficacy_scores: <<player, type>> -> score

integrated_vars == <<wallets, metrics, main_save_file, backup_dir, checkpoint_dir,
                     rollback_stack, transaction_log_file, old_backup, last_transaction,
                     backed_up, read_only>>

wallet_vars == <<balances, coaching_credit_cap, console>>

service_vars == <<db_wallets, audit_logs>>

bonus_vars == <<contract_bonuses, bonus_performance, bonus_efficacy_scores>>

dashboard_vars == <<week, monitor_wallets, transaction_history, weekly_deltas,
                    resource_distribution, inflation_rates, active_alerts, alert_history,
                    bonus_vars>>

\* the variables of the programs added last
other_vars == <<sessions, dashboard_vars>>

vars == <<program, now, result, integrated_vars, wallet_vars, service_vars, other_vars>>

----------------------------------------------------------------------------
(* Dictionaries and files *)

EmptyDict == [k \in {} |-> 0]

Put(d, k, v) == [x \in DOMAIN d \cup {k} |-> IF x = k THEN v ELSE d[x]]

Remove(d, k) == [x \in DOMAIN d \ {k} |-> d[x]]

Max(a, b) == IF a > b THEN a ELSE b

Abs(a) == IF a < 0 THEN -a ELSE a

----------------------------------------------------------------------------
(* Currency names *)

\* str.lower() on the currency names the callers use
Lower(currency) ==
    CASE currency = "Coins" -> "coins"
      [] currency = "Soft" -> "soft"
      [] currency = "Gems" -> "gems"
      [] currency = "Premium" -> "premium"
      [] currency = "Credits" -> "credits"
      [] currency = "CoachingCredit" -> "coachingcredit"
      [] currency = "Utility" -> "utility"
      [] currency = "Gold" -> "gold"
      [] OTHER -> currency

\* the legacy alias dictionary of process_transaction, with .get(currency, currency)
legacy_map(currency) ==
    CASE currency = "soft" -> "coins"
      [] currency = "premium" -> "gems"
      [] currency = "coachingcredit" -> "credits"
      [] currency = "utility" -> "credits"
      [] OTHER -> currency

----------------------------------------------------------------------------
(* Player ids *)

\* strings uuid.UUID() accepts, in canonical form
CanonicalUuids == {"u1", "u2"}

\* ids uuid.uuid4() can return
Uuid4Ids == <<"g1", "g2", "g3", "g4">>

\* _normalize_player_id: a canonical UUID string is returned as it is, any
\* other string is replaced by a fresh uuid4 (the value uuid4 drew is a
\* parameter).
_normalize_player_id(player_id, uuid4) ==
    IF player_id \in CanonicalUuids THEN player_id ELSE uuid4

\* the paths whose writes can fail: the save file and the backup directory
Paths == {"game_state.json", "backups"}

\* the content of a save file that json.load cannot read
Corrupt == [corrupt |-> TRUE]

\* json.load of a file's content succeeds
Loads(content) == "corrupt" \notin DOMAIN content

----------------------------------------------------------------------------
(* GameStateManager *)

\* _get_game_state
_get_game_state == [wallets |-> wallets, metrics |-> metrics]

\* the name of the backup file written at second t: the timestamp in the name
\* has one-second resolution, so the second is the name
backup_file_name(t) == t

\* mutant of _create_backup: past the bound the newest name is popped
\* (pop() for pop(0))
_create_backup_pop_newest(save_file, backups, stack, t) ==
    LET backup_file == backup_file_name(t)
        copied == Put(backups, backup_file, save_file[1])
        pushed == Append(stack, backup_file)
    IN  IF "backups" \in read_only
        THEN [backup_dir |-> backups, rollback_stack |-> stack, old_backup |-> <<>>]
        ELSE IF Len(pushed) > max_rollback_states
        THEN [backup_dir |-> Remove(copied, backup_file),
              rollback_stack |-> stack,
              old_backup |-> <<backup_file>>]
        ELSE [backup_dir |-> copied, rollback_stack |-> pushed, old_backup |-> <<>>]

\* _create_backup: copy the save file to the backup named by the clock, push
\* the name, and past max_rollback_states pop the oldest name and delete
\* its file.  When the copy raises (the backup directory cannot be written)
\* the exception is caught and printed, and nothing is pushed.
_create_backup(save_file, backups, stack, t) ==
    LET backup_file == backup_file_name(t)
        copied == Put(backups, backup_file, save_file[1])
        pushed == Append(stack, backup_file)
    IN  IF "backups" \in read_only
        THEN [backup_dir |-> backups, rollback_stack |-> stack, old_backup |-> <<>>]
        ELSE IF Len(pushed) > max_rollback_states
        THEN [backup_dir |-> Remove(copied, Head(pushed)),
              rollback_stack |-> Tail(pushed),
              old_backup |-> <<Head(pushed)>>]
        ELSE [backup_dir |-> copied, rollback_stack |-> pushed, old_backup |-> <<>>]

\* a mutant of save_game_state: nothing is written while the transaction log
\* cannot be written
save_game_state_with_journal(game_state, create_backup, save_file, backups, stack, t) ==
    LET b == IF create_backup /\ save_file # <<>>
             THEN _create_backup(save_file, backups, stack, t)
             ELSE [backup_dir |-> backups, rollback_stack |-> stack, old_backup |-> <<>>]
        written == /\ "game_state.json" \notin read_only
                   /\ "transaction_log.json" \notin read_only
    IN  [main_save_file |-> IF written THEN <<game_state>> ELSE save_file,
         backup_dir |-> b.backup_dir,
         rollback_stack |-> b.rollback_stack,
         old_backup |-> b.old_backup,
         returned |-> written]

\* save_game_state: the backup when asked for and a save file exists, then
\* the write of the save file.  When open() raises (the save file cannot be
\* written) the exception is caught and False is returned.
save_game_state(game_state, create_backup, save_file, backups, stack, t) ==
    LET b == IF create_backup /\ save_file # <<>>
             THEN _create_backup(save_file, backups, stack, t)
             ELSE [backup_dir |-> backups, rollback_stack |-> stack, old_backup |-> <<>>]
        written == "game_state.json" \notin read_only
    IN  [main_save_file |-> IF written THEN <<game_state>> ELSE save_file,
         backup_dir |-> b.backup_dir,
         rollback_stack |-> b.rollback_stack,
         old_backup |-> b.old_backup,
         returned |-> written]

\* load_game_state: None (here <<>>) when there is no save file, and also
\* when json.load raises, else the game state read
load_game_state(save_file) ==
    IF save_file = <<>> THEN <<>>
    ELSE IF ~Loads(save_file[1]) THEN <<>>
    ELSE save_file

\* a mutant of log_transaction: the log is written anew with the one record
log_transaction_overwrite(log, transaction_data) == <<transaction_data>>

\* log_transaction: append the record to log["transactions"] and write the
\* file anew.  When the file cannot be opened or json.load raises, the
\* exception is caught and printed, and the file stays as it is.
log_transaction(log, transaction_data) ==
    IF "transaction_log.json" \in read_only
    THEN log
    ELSE IF log = <<>>
    THEN <<transaction_data>>
    ELSE IF Loads(log[1])
    THEN Append(log, transaction_data)
    ELSE log

\* a mutant of create_checkpoint: the checkpoint directory is emptied first
create_checkpoint_alone(checkpoints, checkpoint_name, game_state) ==
    Put(EmptyDict, checkpoint_name, game_state)

\* create_checkpoint: checkpoints/checkpoint_<name>.json is written anew
create_checkpoint(checkpoints, checkpoint_name, game_state) ==
    Put(checkpoints, checkpoint_name, game_state)

\* load_checkpoint: <<>> (None) when the file is missing, else <<its content>>
load_checkpoint(checkpoints, checkpoint_name) ==
    IF checkpoint_name \in DOMAIN checkpoints
    THEN <<checkpoints[checkpoint_name]>>
    ELSE <<>>

----------------------------------------------------------------------------
(* IntegratedEconomicSystem *)

InitialMetrics ==
    [total_transactions |-> 0, weekly_deltas |-> EmptyDict,
     inflation_rates |-> EmptyDict, alerts |-> <<>>]

Currencies == {"coins", "gems", "credits"}

Returned(call, value) == [call |-> call, returned |-> value]

\* the wallet create_player builds
new_wallet(initial_coins, initial_gems, initial_credits, credits_cap) ==
    [current_balances |->
        [coins |-> initial_coins, gems |-> initial_gems, credits |-> initial_credits],
     max_capacities |->
        [coins |-> initial_coins * 10, gems |-> initial_gems * 10, credits |-> credits_cap]]

\* create_player: the wallet is stored under the normalized id, then _auto_save
create_player(player_id, initial_coins, initial_gems, initial_credits, credits_cap, uuid4) ==
    LET normalized_id == _normalize_player_id(player_id, uuid4)
        new_wallets == Put(wallets, normalized_id,
                           new_wallet(initial_coins, initial_gems, initial_credits, credits_cap))
        saved == save_game_state([wallets |-> new_wallets, metrics |-> metrics], FALSE,
                                 main_save_file, backup_dir, rollback_stack, now)
    IN  /\ program = "complete_economic_system"
        /\ wallets' = new_wallets
        /\ main_save_file' = saved.main_save_file
        /\ backup_dir' = saved.backup_dir
        /\ rollback_stack' = saved.rollback_stack
        /\ old_backup' = saved.old_backup
        /\ result' = Returned("create_player", "wallet")
        /\ backed_up' = <<>>
        /\ UNCHANGED <<program, now, metrics, checkpoint_dir, transaction_log_file,
                       last_transaction, read_only, wallet_vars, service_vars, other_vars>>

\* line 286: zero counts as a spend
transaction_type(amount) == IF amount > 0 THEN "earn" ELSE "spend"

\* mutant of insufficient: the sufficiency check is missing
insufficient_unchecked(type, current_balance, delta) == FALSE

\* mutant of insufficient: the balance is compared with the signed amount
insufficient_signed(type, current_balance, delta) ==
    type = "spend" /\ current_balance < -delta

\* line 290
insufficient(type, current_balance, delta) ==
    type = "spend" /\ current_balance < delta

\* lines 295-299: the delta of an earn of credits, cut to the room under the cap
capped_delta(type, currency, current_balance, delta, cap) ==
    IF type = "earn" /\ currency = "credits" /\ current_balance + delta > cap
    THEN Max(cap - current_balance, 0)
    ELSE delta

\* _log_failed_transaction's record
failed_record(player_id, currency, amount, reason) ==
    [player_id |-> player_id, currency |-> currency, type |-> "failed",
     amount |-> amount, context |-> [failure_reason |-> reason]]

\* the record of a committed transaction; context is the caller's, which
\* is empty here
transaction_record(player_id, currency, type, signed_delta, new_balance) ==
    [player_id |-> player_id, currency |-> currency, type |-> type,
     amount |-> signed_delta, context |-> EmptyDict, new_balance |-> new_balance]

\* the latest MaxUndo elements of a history
Latest(history) ==
    IF Len(history) > MaxUndo THEN SubSeq(history, Len(history) - MaxUndo + 1, Len(history))
    ELSE history

\* process_transaction
process_transaction(player_id, currency_arg, amount, allow_rollback, uuid4) ==
    LET normalized_id == _normalize_player_id(player_id, uuid4)
    IN  /\ program = "complete_economic_system"
        /\ UNCHANGED <<program, now, checkpoint_dir, read_only, wallet_vars, service_vars, other_vars>>
        /\ IF normalized_id \notin DOMAIN wallets
           THEN \* PlayerNotFound
                /\ result' = Returned("process_transaction", "False")
                /\ old_backup' = <<>>
                /\ backed_up' = <<>>
                /\ UNCHANGED <<wallets, metrics, main_save_file, backup_dir,
                               rollback_stack, transaction_log_file, last_transaction>>
           ELSE LET saved == IF allow_rollback
                             THEN save_game_state(_get_game_state, TRUE, main_save_file,
                                                  backup_dir, rollback_stack, now)
                             ELSE [main_save_file |-> main_save_file,
                                   backup_dir |-> backup_dir,
                                   rollback_stack |-> rollback_stack,
                                   old_backup |-> <<>>]
                    wallet == wallets[normalized_id]
                    current_balances == wallet.current_balances
                    currency == legacy_map(Lower(currency_arg))
                    type == transaction_type(amount)
                IN  /\ backup_dir' = saved.backup_dir
                    /\ rollback_stack' = saved.rollback_stack
                    /\ old_backup' = saved.old_backup
                    /\ IF currency \notin DOMAIN current_balances
                       THEN /\ transaction_log_file' = log_transaction(transaction_log_file,
                                  failed_record(normalized_id, currency, amount, "UnsupportedCurrency"))
                            /\ main_save_file' = saved.main_save_file
                            /\ result' = Returned("process_transaction", "False")
                            /\ backed_up' = <<>>
                            /\ UNCHANGED <<wallets, metrics, last_transaction>>
                       ELSE IF insufficient(type, current_balances[currency], Abs(amount))
                       THEN /\ transaction_log_file' = log_transaction(transaction_log_file,
                                  failed_record(normalized_id, currency, amount, "InsufficientFunds"))
                            /\ main_save_file' = saved.main_save_file
                            /\ result' = Returned("process_transaction", "False")
                            /\ backed_up' = <<>>
                            /\ UNCHANGED <<wallets, metrics, last_transaction>>
                       ELSE LET current_balance == current_balances[currency]
                                delta == capped_delta(type, currency, current_balance, Abs(amount),
                                                      wallet.max_capacities["credits"])
                                signed_delta == IF type = "earn" THEN delta ELSE -delta
                                new_balance == current_balance + signed_delta
                                new_wallets == [wallets EXCEPT
                                    ![normalized_id].current_balances[currency] = new_balance]
                                new_metrics == [metrics EXCEPT
                                    !.total_transactions = metrics.total_transactions + 1]
                            IN  IF type = "earn" /\ currency = "credits"
                                   /\ current_balance + Abs(amount) > wallet.max_capacities["credits"]
                                   /\ delta = 0
                                THEN \* already at the cap: returns with nothing logged
                                     /\ main_save_file' = saved.main_save_file
                                     /\ result' = Returned("process_transaction", "False")
                                     /\ backed_up' = <<>>
                                     /\ UNCHANGED <<wallets, metrics, transaction_log_file,
                                                    last_transaction>>
                                ELSE /\ wallets' = new_wallets
                                     /\ transaction_log_file' = log_transaction(transaction_log_file,
                                           transaction_record(normalized_id, currency, type,
                                                              signed_delta, new_balance))
                                     /\ metrics' = new_metrics
                                     \* _auto_save
                                     /\ main_save_file' = save_game_state(
                                           [wallets |-> new_wallets, metrics |-> new_metrics], FALSE,
                                           saved.main_save_file, saved.backup_dir,
                                           saved.rollback_stack, now).main_save_file
                                     /\ last_transaction' =
                                           <<[before |-> _get_game_state,
                                              after |-> [wallets |-> new_wallets,
                                                         metrics |-> new_metrics],
                                              allow_rollback |-> allow_rollback]>>
                                     /\ backed_up' =
                                           IF allow_rollback
                                           THEN Latest(Append(backed_up, _get_game_state))
                                           ELSE <<>>
                                     /\ result' = Returned("process_transaction", "True")

\* rollback_last_transaction: rollback_to_previous_state and, when it
\* succeeds, load_game, whose result is not looked at.
\* rollback_to_previous_state pops the newest name, copies that backup over
\* the save file and removes the backup; an exception of the copy or of the
\* removal is caught and False is returned, with the name popped.
rollback_last_transaction ==
    /\ program = "complete_economic_system"
    /\ old_backup' = <<>>
    /\ last_transaction' = <<>>
    /\ UNCHANGED <<program, now, checkpoint_dir, transaction_log_file, read_only,
                   wallet_vars, service_vars, other_vars>>
    /\ IF rollback_stack = <<>>
       THEN /\ result' = Returned("rollback_last_transaction", "False")
            /\ backed_up' = <<>>
            /\ UNCHANGED <<wallets, metrics, main_save_file, backup_dir, rollback_stack>>
       ELSE LET backup_file == rollback_stack[Len(rollback_stack)]
            IN  /\ rollback_stack' = SubSeq(rollback_stack, 1, Len(rollback_stack) - 1)
                /\ IF backup_file \notin DOMAIN backup_dir \/ "game_state.json" \in read_only
                   THEN \* shutil.copy2 raises: caught, False
                        /\ result' = Returned("rollback_last_transaction", "False")
                        /\ backed_up' = <<>>
                        /\ UNCHANGED <<wallets, metrics, main_save_file, backup_dir>>
                   ELSE IF "backups" \in read_only
                   THEN \* os.remove raises after the copy: caught, False
                        /\ main_save_file' = <<backup_dir[backup_file]>>
                        /\ result' = Returned("rollback_last_transaction", "False")
                        /\ backed_up' = <<>>
                        /\ UNCHANGED <<wallets, metrics, backup_dir>>
                   ELSE /\ main_save_file' = <<backup_dir[backup_file]>>
                        /\ backup_dir' = Remove(backup_dir, backup_file)
                        \* load_game
                        /\ IF Loads(backup_dir[backup_file])
                           THEN /\ wallets' = backup_dir[backup_file].wallets
                                /\ metrics' = backup_dir[backup_file].metrics
                           ELSE UNCHANGED <<wallets, metrics>>
                        /\ backed_up' = IF backed_up = <<>> THEN <<>>
                                        ELSE SubSeq(backed_up, 1, Len(backed_up) - 1)
                        /\ result' = Returned("rollback_last_transaction", "True")

\* save_game
save_game(make_checkpoint, checkpoint_name) ==
    LET game_state == _get_game_state
        saved == save_game_state(game_state, TRUE, main_save_file, backup_dir,
                                 rollback_stack, now)
    IN  /\ program = "complete_economic_system"
        /\ main_save_file' = saved.main_save_file
        /\ backup_dir' = saved.backup_dir
        /\ rollback_stack' = saved.rollback_stack
        /\ old_backup' = saved.old_backup
        /\ checkpoint_dir' = IF make_checkpoint /\ checkpoint_name # ""
                             THEN create_checkpoint(checkpoint_dir, checkpoint_name,
                                                    game_state)
                             ELSE checkpoint_dir
        /\ result' = Returned("save_game", "None")
        /\ backed_up' = <<>>
        /\ UNCHANGED <<program, now, wallets, metrics, transaction_log_file,
                       last_transaction, read_only, wallet_vars, service_vars, other_vars>>

\* what load_game returns over a save file
load_game_returns(save_file) ==
    IF load_game_state(save_file) = <<>> THEN "False" ELSE "True"

\* load_game: the wallets and the metrics of the save file replace those in
\* memory; False, and nothing replaced, when load_game_state returns None
load_game ==
    LET game_state == load_game_state(main_save_file)
    IN  /\ program = "complete_economic_system"
        /\ result' = Returned("load_game", load_game_returns(main_save_file))
        /\ IF game_state = <<>>
           THEN UNCHANGED <<wallets, metrics>>
           ELSE /\ wallets' = game_state[1].wallets
                /\ metrics' = game_state[1].metrics
        /\ old_backup' = <<>>
        /\ backed_up' = <<>>
        /\ UNCHANGED <<program, now, main_save_file, backup_dir, checkpoint_dir,
                       rollback_stack, transaction_log_file, last_transaction, read_only,
                       wallet_vars, service_vars, other_vars>>

\* get_player_balance: a copy of the wallet under the normalized id, {} when
\* there is none
get_player_balance(player_id, uuid4) ==
    LET normalized_id == _normalize_player_id(player_id, uuid4)
    IN  /\ program = "complete_economic_system"
        /\ result' = [call |-> "get_player_balance",
                      returned |-> IF normalized_id \in DOMAIN wallets
                                   THEN wallets[normalized_id]
                                   ELSE EmptyDict]
        /\ old_backup' = <<>>
        /\ backed_up' = <<>>
        /\ UNCHANGED <<program, now, wallets, metrics, main_save_file, backup_dir,
                       checkpoint_dir, rollback_stack, transaction_log_file,
                       last_transaction, read_only, wallet_vars, service_vars, other_vars>>

\* IntegratedEconomicSystem.__init__ over the files of an earlier run: a new
\* GameStateManager (empty rollback stack), empty wallets and metrics, then
\* load_game, whose result is not looked at
IntegratedEconomicSystem__init__ ==
    LET game_state == load_game_state(main_save_file)
    IN  /\ program = "complete_economic_system"
        /\ rollback_stack' = <<>>
        /\ IF game_state = <<>>
           THEN /\ wallets' = EmptyDict
                /\ metrics' = InitialMetrics
           ELSE /\ wallets' = game_state[1].wallets
                /\ metrics' = game_state[1].metrics
        /\ result' = Returned("__init__", "None")
        /\ old_backup' = <<>>
        /\ last_transaction' = <<>>
        /\ backed_up' = <<>>
        /\ UNCHANGED <<program, now, main_save_file, backup_dir, checkpoint_dir,
                       transaction_log_file, read_only, wallet_vars, service_vars, other_vars>>

\* the environment: the permissions of the save file and the backup
\* directory change
Chmod ==
    /\ program = "complete_economic_system"
    /\ \E paths \in SUBSET Paths :
          /\ paths # read_only
          /\ read_only' = paths
    /\ UNCHANGED <<program, now, result, wallets, metrics, main_save_file, backup_dir,
                   checkpoint_dir, rollback_stack, transaction_log_file, old_backup,
                   last_transaction, backed_up, wallet_vars, service_vars, other_vars>>

\* the environment: the save file is damaged
CorruptSave ==
    /\ program = "complete_economic_system"
    /\ main_save_file # <<>>
    /\ main_save_file' = <<Corrupt>>
    /\ UNCHANGED <<program, now, result, wallets, metrics, backup_dir,
                   checkpoint_dir, rollback_stack, transaction_log_file, old_backup,
                   last_transaction, backed_up, read_only, wallet_vars, service_vars, other_vars>>

\* the environment: the permissions of the transaction log change
ChmodLog ==
    /\ program = "complete_economic_system"
    /\ read_only' = IF "transaction_log.json" \in read_only
                    THEN read_only \ {"transaction_log.json"}
                    ELSE read_only \cup {"transaction_log.json"}
    /\ UNCHANGED <<program, now, result, wallets, metrics, main_save_file, backup_dir,
                   checkpoint_dir, rollback_stack, transaction_log_file, old_backup,
                   last_transaction, backed_up, wallet_vars, service_vars, other_vars>>

\* the environment: the transaction log is damaged
CorruptLog ==
    /\ program = "complete_economic_system"
    /\ transaction_log_file # <<>>
    /\ transaction_log_file # <<Corrupt>>
    /\ transaction_log_file' = <<Corrupt>>
    /\ UNCHANGED <<program, now, result, wallets, metrics, main_save_file, backup_dir,
                   checkpoint_dir, rollback_stack, old_backup, last_transaction,
                   backed_up, read_only, wallet_vars, service_vars, other_vars>>

\* a second passes on the clock
Tick ==
    /\ now < MaxClock
    /\ now' = now + 1
    /\ UNCHANGED <<program, result, integrated_vars, wallet_vars, service_vars, other_vars>>

----------------------------------------------------------------------------
(* PlayerWallet (logger_function.py) *)

\* the record log_transaction prints
printed(currency_type, amount, kind, context_data) ==
    [currency_type |-> currency_type, amount |-> amount,
     transaction_type |-> kind, context_data |-> context_data]

\* get_balance, and balances.get(currency_type, 0)
get_balance(currency_type) ==
    IF currency_type \in DOMAIN balances THEN balances[currency_type] ELSE 0

\* lines 72-74: what an add of CoachingCredit discards
excess_amount(balance, amount, cap) ==
    IF balance + amount > cap THEN balance + amount - cap ELSE 0

\* PlayerWallet.add_currency
PlayerWallet_add_currency(currency_type, amount) ==
    /\ program = "logger_function"
    /\ UNCHANGED <<program, now, coaching_credit_cap, integrated_vars, service_vars, other_vars>>
    /\ IF amount <= 0
       THEN /\ result' = Returned("add_currency", "False")
            /\ UNCHANGED <<balances, console>>
       ELSE IF currency_type = "CoachingCredit"
       THEN LET excess == excess_amount(balances["CoachingCredit"], amount, coaching_credit_cap)
            IN  IF balances["CoachingCredit"] + amount > coaching_credit_cap
                THEN /\ balances' = [balances EXCEPT !["CoachingCredit"] = coaching_credit_cap]
                     /\ console' = Append(console,
                            printed(currency_type, amount - excess, "Earn",
                                    [cap_reached |-> TRUE, excess_amount_discarded |-> excess]))
                     /\ result' = Returned("add_currency", "True")
                ELSE /\ balances' = [balances EXCEPT !["CoachingCredit"] = @ + amount]
                     /\ console' = Append(console,
                            printed(currency_type, amount, "Earn", EmptyDict))
                     /\ result' = Returned("add_currency", "True")
       ELSE IF currency_type \notin DOMAIN balances
       THEN \* self.balances[currency_type] += amount raises KeyError
            /\ result' = Returned("add_currency", "KeyError")
            /\ UNCHANGED <<balances, console>>
       ELSE /\ balances' = [balances EXCEPT ![currency_type] = @ + amount]
            /\ console' = Append(console, printed(currency_type, amount, "Earn", EmptyDict))
            /\ result' = Returned("add_currency", "True")

\* PlayerWallet.spend_currency
PlayerWallet_spend_currency(currency_type, amount) ==
    /\ program = "logger_function"
    /\ UNCHANGED <<program, now, coaching_credit_cap, integrated_vars, service_vars, other_vars>>
    /\ IF amount <= 0
       THEN /\ result' = Returned("spend_currency", "False")
            /\ UNCHANGED <<balances, console>>
       ELSE IF get_balance(currency_type) < amount
       THEN /\ console' = Append(console,
                   printed(currency_type, -amount, "Spend",
                           [status |-> "Failed", reason |-> "InsufficientFunds"]))
            /\ result' = Returned("spend_currency", "False")
            /\ UNCHANGED balances
       ELSE /\ balances' = [balances EXCEPT ![currency_type] = @ - amount]
            /\ console' = Append(console, printed(currency_type, -amount, "Spend", EmptyDict))
            /\ result' = Returned("spend_currency", "True")

----------------------------------------------------------------------------
(* WalletService (backend/app/services/wallet_service.py) *)

VALID_CURRENCIES == {"coins", "gems", "credits"}

\* the AuditLog row
AuditLog(user_id, currency_type, operation, amount, balance_after) ==
    [user_id |-> user_id, currency_type |-> currency_type, operation |-> operation,
     amount |-> amount, balance_after |-> balance_after]

\* WalletService.add_currency
WalletService_add_currency(user_id, currency_type, amount) ==
    /\ program = "backend"
    /\ UNCHANGED <<program, now, integrated_vars, wallet_vars, other_vars>>
    /\ IF currency_type \notin VALID_CURRENCIES \/ amount < 1
       THEN /\ result' = Returned("add_currency", "False")
            /\ UNCHANGED service_vars
       ELSE LET wallet == IF user_id \in DOMAIN db_wallets
                          THEN db_wallets[user_id]
                          ELSE [coins |-> 0, gems |-> 0, credits |-> 0]
                current_value == wallet[currency_type]
            IN  /\ db_wallets' = Put(db_wallets, user_id,
                                     [wallet EXCEPT ![currency_type] = current_value + amount])
                /\ audit_logs' = Append(audit_logs,
                       AuditLog(user_id, currency_type, "add", amount, current_value + amount))
                /\ result' = Returned("add_currency", "True")

\* WalletService.spend_currency
WalletService_spend_currency(user_id, currency_type, amount) ==
    /\ program = "backend"
    /\ UNCHANGED <<program, now, integrated_vars, wallet_vars, other_vars>>
    /\ IF currency_type \notin VALID_CURRENCIES \/ amount < 1
       THEN /\ result' = Returned("spend_currency", "False")
            /\ UNCHANGED service_vars
       ELSE IF user_id \notin DOMAIN db_wallets
       THEN /\ result' = Returned("spend_currency", "False")
            /\ UNCHANGED service_vars
       ELSE IF db_wallets[user_id][currency_type] < amount
       THEN /\ result' = Returned("spend_currency", "False")
            /\ UNCHANGED service_vars
       ELSE LET current_balance == db_wallets[user_id][currency_type]
            IN  /\ db_wallets' = [db_wallets EXCEPT
                                     ![user_id][currency_type] = current_balance - amount]
                /\ audit_logs' = Append(audit_logs,
                       AuditLog(user_id, currency_type, "spend", amount, current_balance - amount))
                /\ result' = Returned("spend_currency", "True")

----------------------------------------------------------------------------
(* The calls a run makes *)

\* uuid4 draws an id no wallet has; the ids it can draw are interchangeable,
\* so the first unused one stands for all of them
Uuid4 ==
    LET unused == {i \in DOMAIN Uuid4Ids : Uuid4Ids[i] \notin DOMAIN wallets}
    IN  Uuid4Ids[CHOOSE i \in unused : \A j \in unused : i <= j]

\* the call pushes no backup, or the stack holds fewer than limit entries
StackWithin(pushes, limit) == ~pushes \/ Len(rollback_stack) < limit

\* the balance an earn produces stays within MaxBalance
WithinBalance(balance, amount) == balance + amount <= MaxBalance

CreatePlayer(player_ids, initial_args) ==
    \E player_id \in player_ids, a \in initial_args :
        /\ \/ Cardinality(DOMAIN wallets) < MaxPlayers
           \/ player_id \in DOMAIN wallets
        /\ create_player(player_id, a[1], a[2], a[3], a[4], Uuid4)

ProcessTransaction(player_ids, currencies, amounts, rollbacks, limit) ==
    \E player_id \in player_ids, currency \in currencies, amount \in amounts,
       allow_rollback \in rollbacks :
        /\ Len(transaction_log_file) < MaxJournal
        /\ StackWithin(allow_rollback /\ player_id \in DOMAIN wallets, limit)
        /\ IF player_id \in DOMAIN wallets /\ legacy_map(Lower(currency)) \in Currencies
           THEN WithinBalance(
                    wallets[player_id].current_balances[legacy_map(Lower(currency))], amount)
           ELSE TRUE
        /\ process_transaction(player_id, currency, amount, allow_rollback, Uuid4)

\* a mutant of Rollback: with an empty stack the save file is removed
RollbackOrReset ==
    IF rollback_stack = <<>>
    THEN /\ program = "complete_economic_system"
         /\ main_save_file' = <<>>
         /\ result' = Returned("rollback_last_transaction", "False")
         /\ old_backup' = <<>>
         /\ last_transaction' = <<>>
         /\ backed_up' = <<>>
         /\ UNCHANGED <<program, now, wallets, metrics, backup_dir, checkpoint_dir,
                        rollback_stack, transaction_log_file, read_only, wallet_vars,
                        service_vars, other_vars>>
    ELSE rollback_last_transaction

Rollback == rollback_last_transaction

SaveGame(checkpoints, checkpoint_names, limit) ==
    \E make_checkpoint \in checkpoints, checkpoint_name \in checkpoint_names :
        /\ StackWithin(main_save_file # <<>>, limit)
        /\ save_game(make_checkpoint, checkpoint_name)

AddCurrency(currency_types, amounts) ==
    \E currency_type \in currency_types, amount \in amounts :
        /\ Len(console) < MaxJournal
        /\ WithinBalance(get_balance(currency_type), amount)
        /\ PlayerWallet_add_currency(currency_type, amount)

SpendCurrency(currency_types, amounts) ==
    \E currency_type \in currency_types, amount \in amounts :
        /\ Len(console) < MaxJournal
        /\ PlayerWallet_spend_currency(currency_type, amount)

ServiceAddCurrency(user_ids, currency_types, amounts) ==
    \E user_id \in user_ids, currency_type \in currency_types, amount \in amounts :
        /\ Len(audit_logs) < MaxJournal
        /\ IF user_id \in DOMAIN db_wallets /\ currency_type \in VALID_CURRENCIES
           THEN WithinBalance(db_wallets[user_id][currency_type], amount)
           ELSE TRUE
        /\ WalletService_add_currency(user_id, currency_type, amount)

ServiceSpendCurrency(user_ids, currency_types, amounts) ==
    \E user_id \in user_ids, currency_type \in currency_types, amount \in amounts :
        /\ Len(audit_logs) < MaxJournal
        /\ WalletService_spend_currency(user_id, currency_type, amount)

\* PlayerWallet(player_id, initial_soft, initial_premium, initial_utility,
\*              initial_coaching_credits, coaching_credit_cap)
PlayerWallet(initial_soft, initial_premium, initial_utility, initial_coaching_credits, cap) ==
    /\ balances = [Soft |-> initial_soft, Premium |-> initial_premium,
                   Utility |-> initial_utility, CoachingCredit |-> initial_coaching_credits]
    /\ coaching_credit_cap = cap

\* <<initial_soft, initial_premium, initial_utility, initial_coaching_credits,
\*   coaching_credit_cap>>
WalletInitialArgs == {<<2, 0, 1, 1, 2>>, <<2, 0, 1, 3, 2>>}

\* the wallets table when the service starts: empty, or the row the tests seed
SeededWallets == {EmptyDict, [u \in {1} |-> [coins |-> 2, gems |-> 0, credits |-> 1]]}

Init ==
    /\ program \in {"complete_economic_system", "logger_function", "backend"}
    /\ now = 0
    /\ result = Returned("__init__", "None")
    \* IntegratedEconomicSystem() in an empty game_saves directory
    /\ wallets = EmptyDict
    /\ metrics = InitialMetrics
    /\ main_save_file = <<>>
    /\ backup_dir = EmptyDict
    /\ checkpoint_dir = EmptyDict
    /\ rollback_stack = <<>>
    /\ transaction_log_file = <<>>
    /\ old_backup = <<>>
    /\ last_transaction = <<>>
    /\ backed_up = <<>>
    /\ read_only = {}
    /\ console = <<>>
    /\ IF program = "logger_function"
       THEN \E a \in WalletInitialArgs : PlayerWallet(a[1], a[2], a[3], a[4], a[5])
       ELSE balances = EmptyDict /\ coaching_credit_cap = 0
    /\ audit_logs = <<>>
    /\ IF program = "backend"
       THEN db_wallets \in SeededWallets
       ELSE db_wallets = EmptyDict
    /\ sessions = EmptyDict
    /\ week = <<2026, 1>>
    /\ monitor_wallets = EmptyDict
    /\ transaction_history = EmptyDict
    /\ weekly_deltas = EmptyDict
    /\ resource_distribution = EmptyDict
    /\ inflation_rates = EmptyDict
    /\ active_alerts = <<>>
    /\ alert_history = <<>>
    /\ contract_bonuses = EmptyDict
    /\ bonus_performance = EmptyDict
    /\ bonus_efficacy_scores = EmptyDict

(* Spec: the three ledgers, with callers that use every kind of player id,
   currency name and amount *)

PlayerArgs == {"u1", "u2", "alice"}

CurrencyArgs == {"coins", "Soft", "CoachingCredit", "utility", "Gold"}

Amounts == {-2, 0, 1, 2}

\* <<initial_coins, initial_gems, initial_credits, credits_cap>>
InitialArgs == {<<2, 0, 1, 2>>, <<2, 0, 3, 2>>}

WalletCurrencyArgs == {"Soft", "CoachingCredit", "coachingcredit", "gold"}

WalletAmounts == {-1, 0, 1, 2}

UserIds == {1, 2}

ServiceCurrencyArgs == {"coins", "credits", "Soft"}

Next ==
    \/ CreatePlayer({"u1"}, InitialArgs)
    \/ CreatePlayer({"u2"}, {<<0, 0, 2, 2>>})
    \/ ProcessTransaction(PlayerArgs, CurrencyArgs, Amounts, BOOLEAN, MaxStack)
    \/ Rollback
    \/ SaveGame({FALSE}, {""}, MaxStack)
    \/ AddCurrency(WalletCurrencyArgs, WalletAmounts)
    \/ SpendCurrency(WalletCurrencyArgs, WalletAmounts)
    \/ ServiceAddCurrency(UserIds, ServiceCurrencyArgs, WalletAmounts)
    \/ ServiceSpendCurrency(UserIds, ServiceCurrencyArgs, WalletAmounts)

Spec == Init /\ [][Next]_vars

(* SpecStack: the rollback stack of the integrated system, filled to its
   bound by one player's calls while the clock runs.  The player is created
   with its credits at the cap, so that an earn of credits is a rejected
   call that pushes a backup. *)

InitStack == Init /\ program = "complete_economic_system"

StackPlayers == {"u1"}
StackInitialArgs == {<<1, 0, 2, 2>>}
StackCurrencyArgs == {"coins", "credits"}
StackAmounts == {1}

NextStack ==
    \/ CreatePlayer(StackPlayers, StackInitialArgs)
    \/ ProcessTransaction(StackPlayers, StackCurrencyArgs, StackAmounts, {TRUE},
                          max_rollback_states + 1)
    \/ Rollback
    \/ SaveGame({FALSE}, {""}, max_rollback_states + 1)
    \/ Tick

SpecStack == InitStack /\ [][NextStack]_vars

(* SpecUndo: SpecStack without save_game: the states that create_player,
   process_transaction and rollback_last_transaction reach *)

NextUndo ==
    \/ CreatePlayer(StackPlayers, StackInitialArgs)
    \/ ProcessTransaction(StackPlayers, StackCurrencyArgs, StackAmounts, {TRUE},
                          max_rollback_states + 1)
    \/ Rollback
    \/ Tick

SpecUndo == InitStack /\ [][NextUndo]_vars

(* SpecFaults: the integrated system over a file system that fails: the save
   file or the backup directory cannot be written, the save file is
   damaged; the system is constructed again over the files it left and
   loads them *)

FaultAmounts == {-1, 1}

NextFaults ==
    \/ CreatePlayer(StackPlayers, StackInitialArgs)
    \/ ProcessTransaction(StackPlayers, StackCurrencyArgs, FaultAmounts, BOOLEAN, MaxStack)
    \/ Rollback
    \/ SaveGame({FALSE}, {""}, MaxStack)
    \/ load_game
    \/ IntegratedEconomicSystem__init__
    \/ Chmod
    \/ CorruptSave

SpecFaults == InitStack /\ [][NextFaults]_vars

(* SpecJournal: the transaction log under every operation of the integrated
   system, saves with and without a checkpoint and a restart included *)

CheckpointNames == {"", "week_1"}

NextJournal ==
    \/ CreatePlayer(StackPlayers, StackInitialArgs)
    \/ ProcessTransaction(StackPlayers, StackCurrencyArgs, FaultAmounts, BOOLEAN, MaxStack)
    \/ Rollback
    \/ SaveGame(BOOLEAN, CheckpointNames, MaxStack)
    \/ load_game
    \/ IntegratedEconomicSystem__init__
    \/ Tick

SpecJournal == InitStack /\ [][NextJournal]_vars

(* SpecIds: players created and addressed under canonical and other ids *)

IdArgs == {"u1", "alice"}

GetPlayerBalance(player_ids) ==
    \E player_id \in player_ids : get_player_balance(player_id, Uuid4)

NextIds ==
    \/ CreatePlayer(IdArgs, StackInitialArgs)
    \/ ProcessTransaction(IdArgs, {"coins"}, StackAmounts, BOOLEAN, MaxStack)
    \/ Rollback
    \/ GetPlayerBalance(IdArgs)

SpecIds == InitStack /\ [][NextIds]_vars

(* SpecJournalFaults: the integrated system over a transaction log that
   cannot be written or cannot be parsed *)

\* process_transaction is issued only while fewer than MaxJournal transactions
\* are counted: a log that cannot be written does not grow
CountedProcessTransaction ==
    /\ metrics.total_transactions < MaxJournal
    /\ ProcessTransaction(StackPlayers, StackCurrencyArgs, FaultAmounts, BOOLEAN, MaxStack)

NextJournalFaults ==
    \/ CreatePlayer(StackPlayers, StackInitialArgs)
    \/ CountedProcessTransaction
    \/ Rollback
    \/ ChmodLog
    \/ CorruptLog
    \/ Tick

SpecJournalFaults == InitStack /\ [][NextJournalFaults]_vars

----------------------------------------------------------------------------
(* EconomicMetrics and EconomicMonitoringSystem (economic_dashboard_phase3.py).

   Left out: the files store_data_locally writes, the "source" and "context"
   of a transaction, the "id" and "timestamp" of an alert.  A timestamp is
   kept as <<year, ISO week>>.  A float is kept as the fraction it is computed
   from, [num, den] with den > 0. *)

TRACKED_CURRENCIES == {"coins", "gems", "credits"}

\* EconomicMetrics.inflation_threshold (0.15), in hundredths
inflation_threshold == 15

\* dict.get(key, default), and the read of a defaultdict
Get(dict, key, default) == IF key \in DOMAIN dict THEN dict[key] ELSE default

\* _get_week_number: the ISO week of a timestamp, without its year
_get_week_number(timestamp) == timestamp[2]

(* PlayerWallet (logger_function.py) as a value: [balances, coaching_credit_cap] *)

PlayerWalletObject(initial_soft, initial_premium, initial_utility, initial_coaching_credits, cap) ==
    [balances |-> [Soft |-> initial_soft, Premium |-> initial_premium,
                   Utility |-> initial_utility,
                   CoachingCredit |-> initial_coaching_credits],
     coaching_credit_cap |-> cap]

\* PlayerWallet.add_currency on a wallet value: the wallet after the call, what
\* the call returned and what it printed
add_currency(wallet, currency_type, amount) ==
    LET b == wallet.balances
        cap == wallet.coaching_credit_cap
    IN  IF amount <= 0
        THEN [wallet |-> wallet, returned |-> "False", printed |-> <<>>]
        ELSE IF currency_type = "CoachingCredit"
        THEN LET excess == excess_amount(b["CoachingCredit"], amount, cap)
             IN  IF b["CoachingCredit"] + amount > cap
                 THEN [wallet |-> [wallet EXCEPT !.balances["CoachingCredit"] = cap],
                       returned |-> "True",
                       printed |-> <<printed(currency_type, amount - excess, "Earn",
                                       [cap_reached |-> TRUE,
                                        excess_amount_discarded |-> excess])>>]
                 ELSE [wallet |-> [wallet EXCEPT !.balances["CoachingCredit"] = @ + amount],
                       returned |-> "True",
                       printed |-> <<printed(currency_type, amount, "Earn", EmptyDict)>>]
        ELSE IF currency_type \notin DOMAIN b
        THEN \* self.balances[currency_type] += amount raises KeyError
             [wallet |-> wallet, returned |-> "KeyError", printed |-> <<>>]
        ELSE [wallet |-> [wallet EXCEPT !.balances[currency_type] = @ + amount],
              returned |-> "True",
              printed |-> <<printed(currency_type, amount, "Earn", EmptyDict)>>]

\* PlayerWallet.spend_currency on a wallet value
spend_currency(wallet, currency_type, amount) ==
    LET b == wallet.balances
    IN  IF amount <= 0
        THEN [wallet |-> wallet, returned |-> "False", printed |-> <<>>]
        ELSE IF Get(b, currency_type, 0) < amount
        THEN [wallet |-> wallet, returned |-> "False",
              printed |-> <<printed(currency_type, -amount, "Spend",
                              [status |-> "Failed", reason |-> "InsufficientFunds"])>>]
        ELSE [wallet |-> [wallet EXCEPT !.balances[currency_type] = @ - amount],
              returned |-> "True",
              printed |-> <<printed(currency_type, -amount, "Spend", EmptyDict)>>]

(* EconomicMetrics *)

\* the record track_transaction appends to transaction_history[currency]
history_record(timestamp, player_id, amount, type) ==
    [timestamp |-> timestamp, player_id |-> player_id, amount |-> amount, type |-> type]

\* track_transaction: the history and the distribution after the call
track_transaction(history, distribution, transaction_data, timestamp) ==
    LET currency == Lower(transaction_data.currency)
        amount == transaction_data.amount
        player_id == transaction_data.player_id
        type == Lower(transaction_data.type)
        held == Get(Get(distribution, currency, EmptyDict), player_id, 0)
        appended == Put(history, currency,
                        Append(Get(history, currency, <<>>),
                               history_record(timestamp, player_id, amount,
                                              type)))
    IN  IF currency \notin TRACKED_CURRENCIES
        THEN [transaction_history |-> history, resource_distribution |-> distribution]
        ELSE IF type = "earn"
        THEN [transaction_history |-> appended,
              resource_distribution |->
                  Put(distribution, currency,
                      Put(Get(distribution, currency, EmptyDict), player_id,
                          held + Abs(amount)))]
        ELSE IF type = "spend"
        THEN [transaction_history |-> appended,
              resource_distribution |->
                  Put(distribution, currency,
                      Put(Get(distribution, currency, EmptyDict), player_id,
                          held - Abs(amount)))]
        ELSE [transaction_history |-> appended, resource_distribution |-> distribution]

\* metrics.track_transaction(transaction_data)
metrics_track_transaction(transaction_data) ==
    LET after == track_transaction(transaction_history, resource_distribution,
                                   transaction_data, week)
    IN  /\ program = "economic_dashboard_phase3"
        /\ transaction_history' = after.transaction_history
        /\ resource_distribution' = after.resource_distribution
        /\ result' = Returned("track_transaction", "None")
        /\ UNCHANGED <<program, now, integrated_vars, wallet_vars, service_vars, sessions, bonus_vars,
                       week, monitor_wallets, weekly_deltas, inflation_rates,
                       active_alerts, alert_history>>

\* lines 112-116: the sum of abs(amount) over the records of one type in one week
RECURSIVE total(_, _, _)
total(records, week_number, type) ==
    IF records = <<>>
    THEN 0
    ELSE (IF /\ _get_week_number(Head(records).timestamp) = week_number
             /\ Head(records).type = type
          THEN Abs(Head(records).amount)
          ELSE 0) + total(Tail(records), week_number, type)

\* calculate_weekly_delta
calculate_weekly_delta(currency_arg, week_number) ==
    LET currency == legacy_map(Lower(currency_arg))
        records == Get(transaction_history, currency, <<>>)
        delta == total(records, week_number, "earn") - total(records, week_number, "spend")
    IN  /\ program = "economic_dashboard_phase3"
        /\ UNCHANGED <<program, now, integrated_vars, wallet_vars, service_vars, sessions, bonus_vars,
                       week, monitor_wallets, transaction_history, resource_distribution,
                       inflation_rates, active_alerts, alert_history>>
        /\ IF currency \notin TRACKED_CURRENCIES
           THEN /\ result' = [call |-> "calculate_weekly_delta", returned |-> "float",
                              value |-> 0]
                /\ UNCHANGED weekly_deltas
           ELSE /\ weekly_deltas' = Put(weekly_deltas, week_number,
                                        Put(Get(weekly_deltas, week_number, EmptyDict),
                                            currency, delta))
                /\ result' = [call |-> "calculate_weekly_delta", returned |-> "float",
                              value |-> delta]

\* sorted(self.weekly_deltas.keys())[-lookback_weeks:], for lookback_weeks >= 1
recent_weeks(weeks, lookback_weeks) ==
    {w \in weeks : Cardinality({v \in weeks : v > w}) < lookback_weeks}

Min(S) == CHOOSE x \in S : \A y \in S : x <= y

Greatest(S) == CHOOSE x \in S : \A y \in S : y <= x

\* line 148: (deltas[-1] - deltas[0]) / abs(deltas[0])
inflation_rate(oldest, newest) == [num |-> newest - oldest, den |-> Abs(oldest)]

\* line 160: inflation_rate > self.inflation_threshold
is_inflated(rate) == rate.num * 100 > inflation_threshold * rate.den

\* the alert detect_inflation raises
inflation_alert(currency, rate) ==
    [level |-> "WARNING", message |-> <<"Inflation detected in", currency>>,
     data |-> [currency |-> currency, rate |-> rate, threshold |-> inflation_threshold],
     acknowledged |-> FALSE]

\* a mutant of _create_alert: an alert already in the list is not added again
_create_alert_once(alerts, alert) ==
    IF \E i \in 1..Len(alerts) : alerts[i] = alert THEN alerts ELSE Append(alerts, alert)

\* _create_alert: the list (active_alerts, alert_history) after the call
_create_alert(alerts, alert) == Append(alerts, alert)

\* the lists of the metrics engine that its analyses append to
Lists == [inflation_rates |-> inflation_rates, active_alerts |-> active_alerts,
          alert_history |-> alert_history]

\* a mutant of alerted: the alert reaches the active list only
alerted_active_only(lists, alert) ==
    [lists EXCEPT !.active_alerts = _create_alert(@, alert)]

\* _create_alert on both lists
alerted(lists, alert) ==
    [lists EXCEPT !.active_alerts = _create_alert(@, alert),
                  !.alert_history = _create_alert(@, alert)]

\* lines 151-158: the rate is appended to the currency's deque, which keeps
\* the latest 100
sampled(lists, currency, rate, lookback_weeks) ==
    LET appended == Append(Get(lists.inflation_rates, currency, <<>>),
                           [rate |-> rate, weeks_analyzed |-> lookback_weeks])
    IN  [lists EXCEPT !.inflation_rates =
             Put(@, currency, IF Len(appended) > 100 THEN Tail(appended) ELSE appended)]

\* a mutant of detected: a currency that already has a rate sample is reported
\* as not inflated, without a new sample
detected_unsampled_only(lists, currency_arg, lookback_weeks) ==
    LET currency == legacy_map(Lower(currency_arg))
        weeks == recent_weeks(DOMAIN weekly_deltas, lookback_weeks)
        oldest == Get(weekly_deltas[Min(weeks)], currency, 0)
        newest == Get(weekly_deltas[Greatest(weeks)], currency, 0)
        rate == inflation_rate(oldest, newest)
        none == [lists |-> lists, is_inflated |-> FALSE, rate |-> [num |-> 0, den |-> 1]]
    IN  IF Cardinality(DOMAIN weekly_deltas) < lookback_weeks
        THEN none
        ELSE IF oldest = 0
        THEN none
        ELSE IF Get(lists.inflation_rates, currency, <<>>) # <<>>
        THEN none
        ELSE IF is_inflated(rate)
        THEN [lists |-> alerted(sampled(lists, currency, rate, lookback_weeks),
                                inflation_alert(currency, rate)),
              is_inflated |-> TRUE, rate |-> rate]
        ELSE [lists |-> sampled(lists, currency, rate, lookback_weeks),
              is_inflated |-> FALSE, rate |-> rate]

\* detect_inflation over the lists: what it returns and the lists after it
detected(lists, currency_arg, lookback_weeks) ==
    LET currency == legacy_map(Lower(currency_arg))
        weeks == recent_weeks(DOMAIN weekly_deltas, lookback_weeks)
        oldest == Get(weekly_deltas[Min(weeks)], currency, 0)
        newest == Get(weekly_deltas[Greatest(weeks)], currency, 0)
        rate == inflation_rate(oldest, newest)
        none == [lists |-> lists, is_inflated |-> FALSE, rate |-> [num |-> 0, den |-> 1]]
    IN  IF Cardinality(DOMAIN weekly_deltas) < lookback_weeks
        THEN none
        ELSE IF oldest = 0
        THEN none
        ELSE IF is_inflated(rate)
        THEN [lists |-> alerted(sampled(lists, currency, rate, lookback_weeks),
                                inflation_alert(currency, rate)),
              is_inflated |-> TRUE, rate |-> rate]
        ELSE [lists |-> sampled(lists, currency, rate, lookback_weeks),
              is_inflated |-> FALSE, rate |-> rate]

\* detect_inflation
detect_inflation(currency_arg, lookback_weeks) ==
    LET outcome == detected(Lists, currency_arg, lookback_weeks)
    IN  /\ program = "economic_dashboard_phase3"
        /\ inflation_rates' = outcome.lists.inflation_rates
        /\ active_alerts' = outcome.lists.active_alerts
        /\ alert_history' = outcome.lists.alert_history
        /\ result' = [call |-> "detect_inflation",
                      returned |-> IF outcome.is_inflated THEN "True" ELSE "False",
                      rate |-> outcome.rate]
        /\ UNCHANGED <<program, now, integrated_vars, wallet_vars, service_vars, sessions,
                       bonus_vars, week, monitor_wallets, transaction_history,
                       weekly_deltas, resource_distribution>>

\* the default of detect_inflation's lookback_weeks
default_lookback_weeks == 4

\* EconomicMetrics.scarcity_threshold (0.3), in hundredths
scarcity_threshold == 30

\* sum(values) of a dictionary
RECURSIVE SumValues(_)
SumValues(d) ==
    IF DOMAIN d = {}
    THEN 0
    ELSE LET k == CHOOSE x \in DOMAIN d : TRUE
         IN  d[k] + SumValues(Remove(d, k))

\* the order in which the currencies of resource_distribution are visited
\* (the dictionary is filled in the order in which the currencies are first
\* tracked; the model visits them in the order of TRACKED_CURRENCIES)
TrackedOrder == <<"coins", "gems", "credits">>

\* lines 228-231: the players whose balance is below
\* avg_balance * scarcity_threshold
scarce_players(player_balances) ==
    {p \in DOMAIN player_balances :
        player_balances[p] * Cardinality(DOMAIN player_balances) * 100
        < SumValues(player_balances) * scarcity_threshold}

\* line 238: len(scarce_players) / len(player_balances) * 100
scarcity_percentage(player_balances) ==
    [num |-> Cardinality(scarce_players(player_balances)) * 100,
     den |-> Cardinality(DOMAIN player_balances)]

\* the alert generate_resource_scarcity_heatmap raises
scarcity_alert(currency, percentage) ==
    [level |-> "WARNING", message |-> <<"High resource scarcity in", currency>>,
     data |-> [currency |-> currency, scarcity_percentage |-> percentage],
     acknowledged |-> FALSE]

\* lines 246-253, currency by currency: an alert when more than 50 percent of
\* the players are scarce
RECURSIVE heatmap_alerts(_, _)
heatmap_alerts(lists, currencies) ==
    IF currencies = <<>>
    THEN lists
    ELSE LET currency == Head(currencies)
             player_balances == Get(resource_distribution, currency, EmptyDict)
             percentage == scarcity_percentage(player_balances)
         IN  IF DOMAIN player_balances = {}
             THEN heatmap_alerts(lists, Tail(currencies))
             ELSE IF percentage.num > 50 * percentage.den
             THEN heatmap_alerts(alerted(lists, scarcity_alert(currency, percentage)),
                                 Tail(currencies))
             ELSE heatmap_alerts(lists, Tail(currencies))

\* generate_resource_scarcity_heatmap over the lists: the scarcity_percentage
\* of each currency that has players (the other statistics of the heatmap are
\* left out) and the lists after it
heatmap(lists) ==
    [scarcity |->
        [currency \in {c \in DOMAIN resource_distribution :
                          DOMAIN resource_distribution[c] # {}}
            |-> scarcity_percentage(resource_distribution[currency])],
     lists |-> heatmap_alerts(lists, TrackedOrder)]

\* generate_resource_scarcity_heatmap
generate_resource_scarcity_heatmap ==
    LET outcome == heatmap(Lists)
    IN  /\ program = "economic_dashboard_phase3"
        /\ active_alerts' = outcome.lists.active_alerts
        /\ alert_history' = outcome.lists.alert_history
        /\ result' = [call |-> "generate_resource_scarcity_heatmap", returned |-> "dict",
                      scarcity |-> outcome.scarcity]
        /\ UNCHANGED <<program, now, integrated_vars, wallet_vars, service_vars, sessions,
                       bonus_vars, week, monitor_wallets, transaction_history,
                       weekly_deltas, resource_distribution, inflation_rates>>

\* the record track_contract_bonus appends to bonus_performance[player_id]
bonus_record(bonus_type, bonus_amount, performance_metric) ==
    [bonus_type |-> bonus_type, amount |-> bonus_amount,
     performance_metric |-> performance_metric]

\* the records of one bonus type, in their order
RECURSIVE of_type(_, _)
of_type(records, bonus_type) ==
    IF records = <<>>
    THEN <<>>
    ELSE IF Head(records).bonus_type = bonus_type
    THEN <<Head(records)>> \o of_type(Tail(records), bonus_type)
    ELSE of_type(Tail(records), bonus_type)

RECURSIVE SumOver(_, _)
SumOver(records, field) ==
    IF records = <<>> THEN 0 ELSE Head(records)[field] + SumOver(Tail(records), field)

\* the last n elements of a sequence
LastN(seq, n) == IF Len(seq) <= n THEN seq ELSE SubSeq(seq, Len(seq) - n + 1, Len(seq))

\* _calculate_bonus_efficacy: the scores after the call; the score
\* (recent_performance - avg_performance) / avg_performance is kept as a fraction
_calculate_bonus_efficacy(scores, performance, player_id, bonus_type) ==
    LET player_bonuses == of_type(Get(performance, player_id, <<>>), bonus_type)
        n == Len(player_bonuses)
        amounts == {player_bonuses[i].amount : i \in 1..n}
        total_performance == SumOver(player_bonuses, "performance_metric")
        recent == IF n >= 3 THEN LastN(player_bonuses, 3) ELSE LastN(player_bonuses, 1)
        efficacy == IF total_performance > 0
                    THEN [num |-> SumOver(recent, "performance_metric") * n
                                  - total_performance * Len(recent),
                          den |-> total_performance * Len(recent)]
                    ELSE [num |-> 0, den |-> 1]
    IN  IF n < 2
        THEN scores
        ELSE IF Cardinality(amounts) > 1
        THEN Put(scores, player_id \o "_" \o bonus_type, efficacy)
        ELSE scores

\* track_contract_bonus
track_contract_bonus(player_id, bonus_type, bonus_amount, performance_metric) ==
    LET bonuses == Get(contract_bonuses, player_id, EmptyDict)
        performance == Put(bonus_performance, player_id,
                           Append(Get(bonus_performance, player_id, <<>>),
                                  bonus_record(bonus_type, bonus_amount,
                                               performance_metric)))
    IN  /\ program = "economic_dashboard_phase3"
        /\ contract_bonuses' = Put(contract_bonuses, player_id,
                                   Put(bonuses, bonus_type,
                                       Get(bonuses, bonus_type, 0) + bonus_amount))
        /\ bonus_performance' = performance
        /\ bonus_efficacy_scores' =
               _calculate_bonus_efficacy(bonus_efficacy_scores, performance,
                                         player_id, bonus_type)
        /\ result' = Returned("track_contract_bonus", "None")
        /\ UNCHANGED <<program, now, integrated_vars, wallet_vars, service_vars, sessions,
                       week, monitor_wallets, transaction_history, weekly_deltas,
                       resource_distribution, inflation_rates, active_alerts,
                       alert_history>>

\* a set as a sequence: the order in which a dictionary's keys are visited
\* (the dictionary keeps the order of insertion; the model keeps one fixed order)
RECURSIVE Ordered(_)
Ordered(S) ==
    IF S = {} THEN <<>> ELSE LET x == CHOOSE y \in S : TRUE IN <<x>> \o Ordered(S \ {x})

\* lines 303-307: total_bonuses_distributed
total_bonuses_distributed ==
    [bonus_type \in UNION {DOMAIN contract_bonuses[p] : p \in DOMAIN contract_bonuses}
        |-> SumValues([p \in {q \in DOMAIN contract_bonuses :
                                 bonus_type \in DOMAIN contract_bonuses[q]}
                          |-> contract_bonuses[p][bonus_type]])]

\* lines 318-319: the latest 20 bonuses of one type, player by player
RECURSIVE bonuses_of(_, _)
bonuses_of(players, bonus_type) ==
    IF players = <<>>
    THEN <<>>
    ELSE of_type(bonus_performance[Head(players)], bonus_type)
         \o bonuses_of(Tail(players), bonus_type)

recent_bonuses(bonus_type) ==
    LastN(bonuses_of(Ordered(DOMAIN bonus_performance), bonus_type), 20)

\* the alert get_bonus_analytics raises
bonus_alert(bonus_type, inflation) ==
    [level |-> "CRITICAL", message |-> <<"Bonus inflation detected in", bonus_type>>,
     data |-> [bonus_type |-> bonus_type, inflation |-> inflation],
     acknowledged |-> FALSE]

\* lines 317-332, bonus type by bonus type: with 10 or more recent bonuses, an
\* alert when the average of the last 10 exceeds that of the first 10 by more
\* than 30 percent
RECURSIVE bonus_alerts(_, _)
bonus_alerts(lists, bonus_types) ==
    IF bonus_types = <<>>
    THEN lists
    ELSE LET bonus_type == Head(bonus_types)
             recent == recent_bonuses(bonus_type)
             early == SumOver(SubSeq(recent, 1, 10), "amount")
             late == SumOver(LastN(recent, 10), "amount")
             inflation == IF early > 0
                          THEN [num |-> late - early, den |-> early]
                          ELSE [num |-> 0, den |-> 1]
         IN  IF Len(recent) >= 10 /\ inflation.num * 10 > 3 * inflation.den
             THEN bonus_alerts(alerted(lists, bonus_alert(bonus_type, inflation)),
                               Tail(bonus_types))
             ELSE bonus_alerts(lists, Tail(bonus_types))

\* get_bonus_analytics over the lists: total_bonuses_distributed (the other
\* analytics are left out) and the lists after it
bonus_analytics(lists) ==
    [total_bonuses_distributed |-> total_bonuses_distributed,
     lists |-> bonus_alerts(lists, Ordered(DOMAIN total_bonuses_distributed))]

\* get_dashboard_summary: detect_inflation for each tracked currency, the
\* heatmap and the bonus analytics, one after the other; economic_health is
\* what the summary reports of them
get_dashboard_summary ==
    LET coins == detected(Lists, "coins", default_lookback_weeks)
        gems == detected(coins.lists, "gems", default_lookback_weeks)
        credits == detected(gems.lists, "credits", default_lookback_weeks)
        scarcity == heatmap(credits.lists)
        bonuses == bonus_analytics(scarcity.lists)
        reported(outcome) == [rate |-> outcome.rate, is_inflated |-> outcome.is_inflated]
    IN  /\ program = "economic_dashboard_phase3"
        /\ inflation_rates' = bonuses.lists.inflation_rates
        /\ active_alerts' = bonuses.lists.active_alerts
        /\ alert_history' = bonuses.lists.alert_history
        /\ result' = [call |-> "get_dashboard_summary", returned |-> "dict",
                      economic_health |->
                          [inflation_rates |->
                               [coins |-> reported(coins), gems |-> reported(gems),
                                credits |-> reported(credits)],
                           resource_scarcity |-> scarcity.scarcity,
                           bonus_distribution |-> bonuses.total_bonuses_distributed]]
        /\ UNCHANGED <<program, now, integrated_vars, wallet_vars, service_vars, sessions,
                       bonus_vars, week, monitor_wallets, transaction_history,
                       weekly_deltas, resource_distribution>>

\* lines 175-201: the strategies mitigate_inflation collects for what
\* detect_inflation returned
mitigation_strategies(outcome) ==
    IF outcome.is_inflated
    THEN (IF outcome.rate.num * 10 > 3 * outcome.rate.den
          THEN <<[action |-> "reduce_earn_rates", target_reduction |-> 20,
                  priority |-> "HIGH"],
                 [action |-> "increase_sinks", target_increase |-> 15,
                  priority |-> "MEDIUM"]>>
          ELSE <<>>)
         \o (IF outcome.rate.num * 10 > 5 * outcome.rate.den
             THEN <<[action |-> "temporary_earning_caps", cap_multiplier |-> 80,
                     duration_days |-> 7, priority |-> "HIGH"]>>
             ELSE <<>>)
    ELSE <<>>

\* mitigate_inflation: detect_inflation runs, then line 204 reads the name
\* currency_type, which is not defined, and raises NameError
mitigate_inflation(currency_arg) ==
    LET outcome == detected(Lists, currency_arg, default_lookback_weeks)
    IN  /\ program = "economic_dashboard_phase3"
        /\ inflation_rates' = outcome.lists.inflation_rates
        /\ active_alerts' = outcome.lists.active_alerts
        /\ alert_history' = outcome.lists.alert_history
        /\ result' = Returned("mitigate_inflation", "NameError")
        /\ UNCHANGED <<program, now, integrated_vars, wallet_vars, service_vars, sessions,
                       bonus_vars, week, monitor_wallets, transaction_history,
                       weekly_deltas, resource_distribution>>

\* lines 340-344: thresholds["bankruptcy_risk"]
bankruptcy_risk == [coins |-> 100, gems |-> 5, credits |-> 5]

\* lines 361-372: the bankruptcy warnings, currency by currency
RECURSIVE bankruptcy_warnings(_, _)
bankruptcy_warnings(distribution, currencies) ==
    IF currencies = <<>>
    THEN <<>>
    ELSE LET currency == Head(currencies)
             player_balances == Get(distribution, currency, EmptyDict)
             at_risk_players == {p \in DOMAIN player_balances :
                                    player_balances[p] <= bankruptcy_risk[currency]}
             later == bankruptcy_warnings(distribution, Tail(currencies))
         IN  IF at_risk_players = {}
             THEN later
             ELSE <<[type |-> "bankruptcy_risk", currency |-> currency,
                     affected_players |-> at_risk_players,
                     severity |-> IF Cardinality(at_risk_players) > 5
                                  THEN "CRITICAL" ELSE "WARNING"]>> \o later

\* lines 375-390: detect_inflation for each tracked currency; the warnings and
\* the lists after it
RECURSIVE inflation_warnings(_, _)
inflation_warnings(lists, currencies) ==
    IF currencies = <<>>
    THEN [lists |-> lists, warnings |-> <<>>]
    ELSE LET currency == Head(currencies)
             outcome == detected(lists, currency, default_lookback_weeks)
             later == inflation_warnings(outcome.lists, Tail(currencies))
             warning(type, severity) ==
                 [type |-> type, currency |-> currency, rate |-> outcome.rate,
                  severity |-> severity]
         IN  IF outcome.rate.num * 10 > 3 * outcome.rate.den
             THEN [later EXCEPT !.warnings =
                      <<warning("inflation_critical", "EMERGENCY")>> \o @]
             ELSE IF outcome.is_inflated
             THEN [later EXCEPT !.warnings =
                      <<warning("inflation_warning", "WARNING")>> \o @]
             ELSE later

\* the alert create_economic_pressure_thresholds raises for a warning
threshold_alert(warning) ==
    [level |-> warning.severity, message |-> <<warning.type, warning.currency>>,
     data |-> warning, acknowledged |-> FALSE]

\* create_economic_pressure_thresholds: reading resource_distribution[currency]
\* at line 363 creates the missing entries; _create_alert appends the alert of
\* the first warning and then raises TypeError at line 427, because
\* json.dumps cannot serialize the AlertLevel held in warning["severity"]
create_economic_pressure_thresholds ==
    LET distribution == [currency \in DOMAIN resource_distribution \cup TRACKED_CURRENCIES
                            |-> Get(resource_distribution, currency, EmptyDict)]
        bankruptcy == bankruptcy_warnings(distribution, TrackedOrder)
        inflation == inflation_warnings(Lists, TrackedOrder)
        warnings == bankruptcy \o inflation.warnings
        lists == IF warnings = <<>>
                 THEN inflation.lists
                 ELSE alerted(inflation.lists, threshold_alert(Head(warnings)))
    IN  /\ program = "economic_dashboard_phase3"
        /\ resource_distribution' = distribution
        /\ inflation_rates' = lists.inflation_rates
        /\ active_alerts' = lists.active_alerts
        /\ alert_history' = lists.alert_history
        /\ result' = IF warnings = <<>>
                     THEN [call |-> "create_economic_pressure_thresholds",
                           returned |-> "dict", current_warnings |-> warnings]
                     ELSE Returned("create_economic_pressure_thresholds", "TypeError")
        /\ UNCHANGED <<program, now, integrated_vars, wallet_vars, service_vars, sessions,
                       bonus_vars, week, monitor_wallets, transaction_history,
                       weekly_deltas>>

(* EconomicMonitoringSystem *)

\* create_player_wallet: PlayerWallet() takes no initial_coins, initial_gems,
\* initial_credits or credits_cap, so the call at lines 493-499 raises TypeError
create_player_wallet(player_id) ==
    /\ program = "economic_dashboard_phase3"
    /\ result' = Returned("create_player_wallet", "TypeError")
    /\ UNCHANGED <<program, now, integrated_vars, wallet_vars, service_vars, other_vars>>

\* monitor.wallets[player_id] = PlayerWallet(player_id, ...): the caller puts a
\* wallet into the public dictionary itself
register_wallet(player_id, a) ==
    /\ program = "economic_dashboard_phase3"
    /\ monitor_wallets' = Put(monitor_wallets, player_id,
                              PlayerWalletObject(a[1], a[2], a[3], a[4], a[5]))
    /\ result' = Returned("PlayerWallet", "None")
    /\ UNCHANGED <<program, now, integrated_vars, wallet_vars, service_vars, sessions, bonus_vars,
                   week, transaction_history, weekly_deltas, resource_distribution,
                   inflation_rates, active_alerts, alert_history>>

\* EconomicMonitoringSystem.process_transaction
monitor_process_transaction(player_id, currency_arg, amount) ==
    /\ program = "economic_dashboard_phase3"
    /\ UNCHANGED <<program, now, integrated_vars, balances, coaching_credit_cap,
                   service_vars, sessions, bonus_vars, week, weekly_deltas, inflation_rates,
                   active_alerts, alert_history>>
    /\ IF player_id \notin DOMAIN monitor_wallets
       THEN /\ result' = Returned("process_transaction", "False")
            /\ UNCHANGED <<console, monitor_wallets, transaction_history,
                           resource_distribution>>
       ELSE LET wallet == monitor_wallets[player_id]
                currency == legacy_map(Lower(currency_arg))
                outcome == IF amount > 0
                           THEN add_currency(wallet, currency, amount)
                           ELSE spend_currency(wallet, currency, Abs(amount))
                transaction_data ==
                    [player_id |-> player_id, currency |-> Lower(currency),
                     amount |-> amount,
                     type |-> IF amount > 0 THEN "earn" ELSE "spend"]
                after == track_transaction(transaction_history, resource_distribution,
                                           transaction_data, week)
            IN  /\ monitor_wallets' = [monitor_wallets EXCEPT ![player_id] = outcome.wallet]
                /\ console' = console \o outcome.printed
                /\ result' = Returned("process_transaction", outcome.returned)
                /\ IF outcome.returned = "True"
                   THEN /\ transaction_history' = after.transaction_history
                        /\ resource_distribution' =
                               Put(after.resource_distribution, Lower(currency),
                                   Put(Get(after.resource_distribution, Lower(currency),
                                           EmptyDict),
                                       player_id,
                                       Get(outcome.wallet.balances, currency, 0)))
                   ELSE UNCHANGED <<transaction_history, resource_distribution>>

\* a week passes
NextWeek ==
    /\ program = "economic_dashboard_phase3"
    /\ week' = <<week[1], week[2] + 1>>
    /\ UNCHANGED <<program, now, result, integrated_vars, wallet_vars, service_vars,
                   sessions, bonus_vars, monitor_wallets, transaction_history, weekly_deltas,
                   resource_distribution, inflation_rates, active_alerts, alert_history>>

(* SpecMetrics: the metrics engine over a few weeks *)

InitDashboard ==
    /\ program = "economic_dashboard_phase3"
    /\ now = 0
    /\ result = Returned("__init__", "None")
    /\ wallets = EmptyDict
    /\ metrics = InitialMetrics
    /\ main_save_file = <<>>
    /\ backup_dir = EmptyDict
    /\ checkpoint_dir = EmptyDict
    /\ rollback_stack = <<>>
    /\ transaction_log_file = <<>>
    /\ old_backup = <<>>
    /\ last_transaction = <<>>
    /\ backed_up = <<>>
    /\ read_only = {}
    /\ console = <<>>
    /\ balances = EmptyDict
    /\ coaching_credit_cap = 0
    /\ audit_logs = <<>>
    /\ db_wallets = EmptyDict
    /\ sessions = EmptyDict
    \* EconomicMonitoringSystem(): EconomicMetrics() and no wallets
    /\ week = <<2026, 1>>
    /\ monitor_wallets = EmptyDict
    /\ transaction_history = EmptyDict
    /\ weekly_deltas = EmptyDict
    /\ resource_distribution = EmptyDict
    /\ inflation_rates = EmptyDict
    /\ active_alerts = <<>>
    /\ alert_history = <<>>
    /\ contract_bonuses = EmptyDict
    /\ bonus_performance = EmptyDict
    /\ bonus_efficacy_scores = EmptyDict

MetricsPlayers == {"p1"}

MonitorCurrencyArgs == {"coins", "Soft", "CoachingCredit"}

MonitorAmounts == {-1, 0, 1}

TrackedCurrencyArgs == {"coins", "Soft"}

TrackedAmounts == {1, 2}

TrackedTypes == {"earn", "spend"}

LookbackArgs == {2, 3}

CreatePlayerWallet(player_ids) ==
    \E player_id \in player_ids : create_player_wallet(player_id)

RegisterWallet(player_ids, initial_args) ==
    \E player_id \in player_ids, a \in initial_args : register_wallet(player_id, a)

MonitorProcessTransaction(player_ids, currencies, amounts) ==
    \E player_id \in player_ids, currency \in currencies, amount \in amounts :
        /\ Len(console) < MaxJournal
        /\ monitor_process_transaction(player_id, currency, amount)

TrackTransaction(player_ids, currencies, amounts, types) ==
    \E player_id \in player_ids, currency \in currencies, amount \in amounts,
       type \in types :
        /\ Len(Get(transaction_history, Lower(currency), <<>>)) < MaxHistory
        /\ metrics_track_transaction([player_id |-> player_id, currency |-> currency,
                                      amount |-> amount, type |-> type])

CalculateWeeklyDelta(currencies) ==
    \E currency \in currencies, week_number \in 1..MaxWeek :
        calculate_weekly_delta(currency, week_number)

DetectInflation(currencies, lookbacks) ==
    \E currency \in currencies, lookback_weeks \in lookbacks :
        /\ Len(Get(inflation_rates, legacy_map(Lower(currency)), <<>>)) < MaxAlerts
        /\ detect_inflation(currency, lookback_weeks)

PassWeek == week[2] < MaxWeek /\ NextWeek

NextMetrics ==
    \/ TrackTransaction(MetricsPlayers, TrackedCurrencyArgs, TrackedAmounts, TrackedTypes)
    \/ CalculateWeeklyDelta(TrackedCurrencyArgs)
    \/ DetectInflation(TrackedCurrencyArgs, LookbackArgs)
    \/ PassWeek

SpecMetrics == InitDashboard /\ [][NextMetrics]_vars

(* SpecSummary: the analyses of the metrics engine over four weeks of deltas *)

BonusTypes == {"signing"}

BonusAmounts == {1, 2}

PerformanceMetrics == {1}

\* the lists of alerts and of rate samples hold fewer than n entries
Room(n) ==
    /\ Len(alert_history) < n
    /\ \A currency \in TRACKED_CURRENCIES :
           Len(Get(inflation_rates, currency, <<>>)) < n

CalculateCurrentDelta(currencies) ==
    \E currency \in currencies : calculate_weekly_delta(currency, week[2])

PassSummaryWeek == week[2] < MaxSummaryWeek /\ NextWeek

GenerateResourceScarcityHeatmap == Room(MaxAlerts) /\ generate_resource_scarcity_heatmap

TrackContractBonus(player_ids, bonus_types, amounts, performances) ==
    \E player_id \in player_ids, bonus_type \in bonus_types, bonus_amount \in amounts,
       performance_metric \in performances :
        /\ Len(Get(bonus_performance, player_id, <<>>)) < MaxBonuses
        /\ track_contract_bonus(player_id, bonus_type, bonus_amount, performance_metric)

GetDashboardSummary == Room(MaxAlerts + 1) /\ get_dashboard_summary

MitigateInflation(currencies) ==
    \E currency \in currencies : Room(MaxAlerts) /\ mitigate_inflation(currency)

CreateEconomicPressureThresholds == Room(MaxAlerts) /\ create_economic_pressure_thresholds

NextSummary ==
    \/ TrackTransaction(MetricsPlayers, {"coins"}, TrackedAmounts, {"spend"})
    \/ CalculateCurrentDelta({"coins"})
    \/ PassSummaryWeek
    \/ TrackContractBonus(MetricsPlayers, BonusTypes, BonusAmounts, PerformanceMetrics)
    \/ GetDashboardSummary

SpecSummary == InitDashboard /\ [][NextSummary]_vars

(* SpecAlerts: the analyses of the metrics engine that raise alerts *)

NextAlerts ==
    \/ TrackTransaction(MetricsPlayers, {"coins"}, TrackedAmounts, {"spend"})
    \/ CalculateCurrentDelta({"coins"})
    \/ PassSummaryWeek
    \/ GenerateResourceScarcityHeatmap
    \/ MitigateInflation({"coins"})
    \/ CreateEconomicPressureThresholds

SpecAlerts == InitDashboard /\ [][NextAlerts]_vars

(* SpecLookback: deltas of two currencies under detect_inflation *)

DeltaCurrencyArgs == {"coins", "gems"}

NextLookback ==
    \/ TrackTransaction(MetricsPlayers, {"coins"}, TrackedAmounts, TrackedTypes)
    \/ CalculateWeeklyDelta(DeltaCurrencyArgs)
    \/ DetectInflation({"coins"}, LookbackArgs)
    \/ PassWeek

SpecLookback == InitDashboard /\ [][NextLookback]_vars

(* SpecMonitor: the monitoring system in front of its wallets *)

NextMonitor ==
    \/ CreatePlayerWallet(MetricsPlayers)
    \/ RegisterWallet(MetricsPlayers, {<<2, 0, 1, 1, 2>>})
    \/ MonitorProcessTransaction(MetricsPlayers \cup {"p2"}, MonitorCurrencyArgs,
                                 MonitorAmounts)
    \/ TrackTransaction(MetricsPlayers, TrackedCurrencyArgs, TrackedAmounts, TrackedTypes)
    \/ PassWeek

SpecMonitor == InitDashboard /\ [][NextMonitor]_vars

----------------------------------------------------------------------------
(* WalletService under concurrent requests (backend/app/api/coins.py,
   backend/app/db/database.py, backend/app/services/wallet_service.py).

   The endpoints are plain functions, which the framework runs on a pool of
   threads; get_db gives each request its own Session.  A handler reads the
   wallet row into its Session, changes the attribute there, and the commit
   writes the attribute's new value to the table.  Nothing locks the row
   between the read and the commit, so the model splits each handler into
   these two steps and lets the steps of two requests interleave. *)

Requests == {"r1", "r2"}

\* the Session of a request: the call it serves, the position of the handler
\* ("commit": the row was read and changed in the Session; "done": returned),
\* the value the Session holds for the changed attribute, and what the call
\* returned
Session(operation, user_id, currency_type, amount, pc, value, returned) ==
    [operation |-> operation, user_id |-> user_id, currency_type |-> currency_type,
     amount |-> amount, pc |-> pc, value |-> value, returned |-> returned]

\* WalletService.add_currency, lines 53-64: validate, query the wallet, read
\* the balance, set the new balance on the Session's object
begin_add_currency(r, user_id, currency_type, amount) ==
    /\ program = "backend"
    /\ r \notin DOMAIN sessions
    /\ UNCHANGED <<program, now, integrated_vars, wallet_vars, service_vars, dashboard_vars>>
    /\ IF currency_type \notin VALID_CURRENCIES \/ amount < 1
       THEN /\ sessions' = Put(sessions, r,
                   Session("add", user_id, currency_type, amount, "done", 0, "False"))
            /\ result' = Returned("add_currency", "False")
       ELSE LET wallet == IF user_id \in DOMAIN db_wallets
                          THEN db_wallets[user_id]
                          ELSE [coins |-> 0, gems |-> 0, credits |-> 0]
                current_value == wallet[currency_type]
            IN  /\ sessions' = Put(sessions, r,
                       Session("add", user_id, currency_type, amount, "commit",
                               current_value + amount, "None"))
                /\ UNCHANGED result

\* WalletService.spend_currency, lines 82-93: validate, query the wallet,
\* compare the balance with the amount, set the new balance on the Session's
\* object
begin_spend_currency(r, user_id, currency_type, amount) ==
    /\ program = "backend"
    /\ r \notin DOMAIN sessions
    /\ UNCHANGED <<program, now, integrated_vars, wallet_vars, service_vars, dashboard_vars>>
    /\ IF currency_type \notin VALID_CURRENCIES \/ amount < 1
       THEN /\ sessions' = Put(sessions, r,
                   Session("spend", user_id, currency_type, amount, "done", 0, "False"))
            /\ result' = Returned("spend_currency", "False")
       ELSE IF user_id \notin DOMAIN db_wallets
       THEN /\ sessions' = Put(sessions, r,
                   Session("spend", user_id, currency_type, amount, "done", 0, "False"))
            /\ result' = Returned("spend_currency", "False")
       ELSE IF db_wallets[user_id][currency_type] < amount
       THEN /\ sessions' = Put(sessions, r,
                   Session("spend", user_id, currency_type, amount, "done", 0, "False"))
            /\ result' = Returned("spend_currency", "False")
       ELSE LET current_balance == db_wallets[user_id][currency_type]
            IN  /\ sessions' = Put(sessions, r,
                       Session("spend", user_id, currency_type, amount, "commit",
                               current_balance - amount, "None"))
                /\ UNCHANGED result

\* lines 66-78 and 95-107: the AuditLog row is added and db.commit() writes
\* the Session's value of the attribute to the row and inserts the audit row
commit(r) ==
    /\ program = "backend"
    /\ r \in DOMAIN sessions
    /\ sessions[r].pc = "commit"
    /\ LET s == sessions[r]
           row == IF s.user_id \in DOMAIN db_wallets
                  THEN db_wallets[s.user_id]
                  ELSE [coins |-> 0, gems |-> 0, credits |-> 0]
       IN  /\ db_wallets' = Put(db_wallets, s.user_id,
                                [row EXCEPT ![s.currency_type] = s.value])
           /\ audit_logs' = Append(audit_logs,
                  AuditLog(s.user_id, s.currency_type, s.operation, s.amount, s.value))
           /\ sessions' = [sessions EXCEPT ![r].pc = "done", ![r].returned = "True"]
           /\ result' = Returned(s.operation \o "_currency", "True")
    /\ UNCHANGED <<program, now, integrated_vars, wallet_vars, dashboard_vars>>

(* SpecSessions: two requests for the seeded user's wallet *)

InitSessions == Init /\ program = "backend" /\ db_wallets # EmptyDict

SessionUsers == {1}

SessionCurrencyArgs == {"coins", "credits", "Soft"}

SessionAmounts == {0, 1, 2, 3}

BeginAddCurrency(user_ids, currency_types, amounts) ==
    \E r \in Requests, user_id \in user_ids, currency_type \in currency_types,
       amount \in amounts :
        begin_add_currency(r, user_id, currency_type, amount)

BeginSpendCurrency(user_ids, currency_types, amounts) ==
    \E r \in Requests, user_id \in user_ids, currency_type \in currency_types,
       amount \in amounts :
        begin_spend_currency(r, user_id, currency_type, amount)

Commit == \E r \in Requests : commit(r)

NextSessions ==
    \/ BeginAddCurrency(SessionUsers, SessionCurrencyArgs, SessionAmounts)
    \/ BeginSpendCurrency(SessionUsers, SessionCurrencyArgs, SessionAmounts)
    \/ Commit

SpecSessions == InitSessions /\ [][NextSessions]_vars

----------------------------------------------------------------------------
(* Checkpoints: GameStateManager.create_checkpoint and load_checkpoint called
   on system.state_manager, next to the saves of the integrated system *)

\* state_manager.create_checkpoint(checkpoint_name, game_state)
state_manager_create_checkpoint(checkpoint_name, game_state) ==
    /\ program = "complete_economic_system"
    /\ checkpoint_dir' = create_checkpoint(checkpoint_dir, checkpoint_name, game_state)
    /\ result' = Returned("create_checkpoint", "True")
    /\ UNCHANGED <<program, now, wallets, metrics, main_save_file, backup_dir,
                   rollback_stack, transaction_log_file, old_backup, last_transaction,
                   backed_up, read_only, wallet_vars, service_vars, other_vars>>

\* state_manager.load_checkpoint(checkpoint_name)
state_manager_load_checkpoint(checkpoint_name) ==
    /\ program = "complete_economic_system"
    /\ result' = [call |-> "load_checkpoint",
                  returned |-> IF load_checkpoint(checkpoint_dir, checkpoint_name) = <<>>
                               THEN "None" ELSE "dict",
                  value |-> load_checkpoint(checkpoint_dir, checkpoint_name)]
    /\ UNCHANGED <<program, now, integrated_vars, wallet_vars, service_vars, other_vars>>

DirectCheckpointNames == {"week_1", "week_2"}

\* the caller checkpoints the state the system is in
CreateCheckpoint(checkpoint_names) ==
    \E checkpoint_name \in checkpoint_names :
        state_manager_create_checkpoint(checkpoint_name, _get_game_state)

LoadCheckpoint(checkpoint_names) ==
    \E checkpoint_name \in checkpoint_names : state_manager_load_checkpoint(checkpoint_name)

(* SpecCheckpoint: checkpoints while the rollback stack fills to its bound,
   evicts and is rolled back *)

NextCheckpoint ==
    \/ CreatePlayer(StackPlayers, StackInitialArgs)
    \/ ProcessTransaction(StackPlayers, StackCurrencyArgs, StackAmounts, {TRUE},
                          max_rollback_states + 1)
    \/ Rollback
    \/ SaveGame({TRUE}, {"week_1"}, max_rollback_states + 1)
    \/ CreateCheckpoint({"week_2"})
    \/ LoadCheckpoint(DirectCheckpointNames)

SpecCheckpoint == InitStack /\ [][NextCheckpoint]_vars

----------------------------------------------------------------------------
(* The claims *)

Last(seq) == seq[Len(seq)]

\* the currency a caller's name stands for in process_transaction
Resolved(currency) == legacy_map(Lower(currency))

\* every argument the callers of either specification pass
AnyCurrencyArgs == CurrencyArgs \cup StackCurrencyArgs
AnyAmounts == Amounts \cup StackAmounts \cup FaultAmounts

C2_AddLeavesCreditsWithinCap ==
    [][ /\ result'.call = "process_transaction" =>
           \A player_id \in DOMAIN wallets, currency \in AnyCurrencyArgs,
              amount \in AnyAmounts, allow_rollback \in BOOLEAN :
              ( /\ amount > 0
                /\ Resolved(currency) = "credits"
                /\ process_transaction(player_id, currency, amount, allow_rollback, Uuid4) )
              => wallets'[player_id].current_balances["credits"]
                   <= wallets'[player_id].max_capacities["credits"]
        /\ (program = "logger_function" /\ result'.call = "add_currency") =>
           \A amount \in WalletAmounts :
              (amount > 0 /\ PlayerWallet_add_currency("CoachingCredit", amount))
              => balances'["CoachingCredit"] <= coaching_credit_cap'
      ]_vars

\* C3 as claimed: a rollback called immediately after a successful
\* process_transaction made with allow_rollback = true restores every
\* player's balances and every metrics aggregate to their values before
\* that transaction.
C3_RollbackRestoresPreTransaction ==
    [][ ( /\ result = Returned("process_transaction", "True")
          /\ last_transaction # <<>>
          /\ last_transaction[1].allow_rollback
          /\ rollback_last_transaction )
        => /\ wallets' = last_transaction[1].before.wallets
           /\ metrics' = last_transaction[1].before.metrics
      ]_vars

\* C4 as claimed: a successful rollback leaves the save file and the wallets
\* in memory different from the state the last committed transaction
\* produced.
C4_RollbackNeverRestoresCommitted ==
    [][ ( /\ last_transaction # <<>>
          /\ rollback_last_transaction
          /\ result' = Returned("rollback_last_transaction", "True") )
        => /\ [wallets |-> wallets', metrics |-> metrics'] # last_transaction[1].after
           /\ main_save_file' # <<last_transaction[1].after>>
      ]_vars

\* a call that pushes a backup: process_transaction for a known player with
\* allow_rollback = true, or save_game, while a save file exists
BackupPushed ==
    /\ main_save_file # <<>>
    /\ \/ \E player_id \in DOMAIN wallets, currency \in AnyCurrencyArgs, amount \in AnyAmounts :
              process_transaction(player_id, currency, amount, TRUE, Uuid4)
       \/ \E make_checkpoint \in BOOLEAN, checkpoint_name \in {"", "week_1"} :
              save_game(make_checkpoint, checkpoint_name)

\* C5: the rollback stack never holds more than max_rollback_states entries,
\* and a backup pushed on a full stack removes the oldest entry and its
\* backup file, and leaves the other entries in their order followed by the
\* new one.
C5_RollbackStackBounded ==
    /\ [](Len(rollback_stack) <= max_rollback_states)
    /\ [][ (Len(rollback_stack) = max_rollback_states /\ BackupPushed)
           => /\ rollback_stack' = Append(Tail(rollback_stack), backup_file_name(now))
              /\ Head(rollback_stack) \notin DOMAIN backup_dir'
         ]_vars

\* a backup has just been pushed on a full stack
C5_Witness ==
    /\ Len(rollback_stack) = max_rollback_states
    /\ old_backup # <<>>

\* C6: a spend of more than the balance fails, with the reason
\* InsufficientFunds where a reason is recorded, and changes no balance.
C6_SpendAllOrNothing ==
    [][ /\ result'.call = "process_transaction" =>
           \A player_id \in DOMAIN wallets, currency \in AnyCurrencyArgs,
              amount \in AnyAmounts, allow_rollback \in BOOLEAN :
              ( /\ Resolved(currency) \in Currencies
                /\ amount < 0
                /\ -amount > wallets[player_id].current_balances[Resolved(currency)]
                /\ process_transaction(player_id, currency, amount, allow_rollback, Uuid4) )
              => /\ result'.returned = "False"
                 /\ wallets' = wallets
                 /\ Len(transaction_log_file') = Len(transaction_log_file) + 1
                 /\ Last(transaction_log_file').type = "failed"
                 /\ Last(transaction_log_file').context.failure_reason = "InsufficientFunds"
        /\ (program = "logger_function" /\ result'.call = "spend_currency") =>
           \A currency_type \in WalletCurrencyArgs, amount \in WalletAmounts :
              ( /\ amount > 0
                /\ amount > get_balance(currency_type)
                /\ PlayerWallet_spend_currency(currency_type, amount) )
              => /\ result'.returned = "False"
                 /\ balances' = balances
                 /\ Last(console').context_data.reason = "InsufficientFunds"
        /\ (program = "backend" /\ result'.call = "spend_currency") =>
           \A user_id \in DOMAIN db_wallets, currency_type \in VALID_CURRENCIES,
              amount \in WalletAmounts :
              ( /\ amount > db_wallets[user_id][currency_type]
                /\ WalletService_spend_currency(user_id, currency_type, amount) )
              => /\ result'.returned = "False"
                 /\ db_wallets' = db_wallets
      ]_vars

\* a spend of more than the balance has just been rejected
C6_Witness ==
    /\ result = Returned("process_transaction", "False")
    /\ transaction_log_file # <<>>
    /\ Last(transaction_log_file).type = "failed"
    /\ Last(transaction_log_file).context.failure_reason = "InsufficientFunds"
    /\ Last(transaction_log_file).amount < 0

\* C7 as claimed: an add to the capped currency with balance < cap and
\* balance + amount > cap succeeds, raises the balance by cap - balance, and
\* emits a record whose amount is cap - balance and whose context reports
\* the discarded excess, amount - (cap - balance).
C7_TruncatedAddReportsExcess ==
    [][ /\ result'.call = "process_transaction" =>
           \A player_id \in DOMAIN wallets, currency \in AnyCurrencyArgs,
              amount \in AnyAmounts, allow_rollback \in BOOLEAN :
              LET balance == wallets[player_id].current_balances["credits"]
                  cap == wallets[player_id].max_capacities["credits"]
              IN  ( /\ Resolved(currency) = "credits"
                    /\ amount > 0
                    /\ balance < cap
                    /\ balance + amount > cap
                    /\ process_transaction(player_id, currency, amount, allow_rollback, Uuid4) )
                  => /\ result'.returned = "True"
                     /\ wallets'[player_id].current_balances["credits"] = balance + (cap - balance)
                     /\ Last(transaction_log_file').amount = cap - balance
                     /\ "excess_amount_discarded" \in DOMAIN Last(transaction_log_file').context
                     /\ Last(transaction_log_file').context.excess_amount_discarded
                           = amount - (cap - balance)
        /\ (program = "logger_function" /\ result'.call = "add_currency") =>
           \A amount \in WalletAmounts :
              LET balance == balances["CoachingCredit"]
                  cap == coaching_credit_cap
              IN  ( /\ amount > 0
                    /\ balance < cap
                    /\ balance + amount > cap
                    /\ PlayerWallet_add_currency("CoachingCredit", amount) )
                  => /\ result'.returned = "True"
                     /\ balances'["CoachingCredit"] = balance + (cap - balance)
                     /\ Last(console').amount = cap - balance
                     /\ "excess_amount_discarded" \in DOMAIN Last(console').context_data
                     /\ Last(console').context_data.excess_amount_discarded
                           = amount - (cap - balance)
      ]_vars

\* C8 as claimed: an add to the capped currency of a wallet with no headroom
\* (balance >= cap) returns failure and changes no balance.
C8_AddAtCapFails ==
    [][ /\ result'.call = "process_transaction" =>
           \A player_id \in DOMAIN wallets, currency \in AnyCurrencyArgs,
              amount \in AnyAmounts, allow_rollback \in BOOLEAN :
              ( /\ Resolved(currency) = "credits"
                /\ amount > 0
                /\ wallets[player_id].current_balances["credits"]
                      >= wallets[player_id].max_capacities["credits"]
                /\ process_transaction(player_id, currency, amount, allow_rollback, Uuid4) )
              => /\ result'.returned = "False"
                 /\ wallets' = wallets
        /\ (program = "logger_function" /\ result'.call = "add_currency") =>
           \A amount \in WalletAmounts :
              ( /\ amount > 0
                /\ balances["CoachingCredit"] >= coaching_credit_cap
                /\ PlayerWallet_add_currency("CoachingCredit", amount) )
              => /\ result'.returned = "False"
                 /\ balances' = balances
      ]_vars

\* C9 as claimed: every rejected mutation attempt appends exactly one failed
\* record that carries the failure reason, and no other record.
C9_RejectionLogsOneFailedRecord ==
    [][ /\ ( /\ result'.call = "process_transaction"
             /\ result'.returned = "False"
             /\ \E player_id \in PlayerArgs, currency \in AnyCurrencyArgs,
                   amount \in AnyAmounts, allow_rollback \in BOOLEAN :
                   process_transaction(player_id, currency, amount, allow_rollback, Uuid4) )
           => /\ Len(transaction_log_file') = Len(transaction_log_file) + 1
              /\ SubSeq(transaction_log_file', 1, Len(transaction_log_file)) = transaction_log_file
              /\ Last(transaction_log_file').type = "failed"
              /\ "failure_reason" \in DOMAIN Last(transaction_log_file').context
        /\ ( /\ result'.call \in {"add_currency", "spend_currency"}
             /\ result'.returned = "False"
             /\ program = "logger_function"
             /\ \E currency_type \in WalletCurrencyArgs, amount \in WalletAmounts :
                   \/ PlayerWallet_add_currency(currency_type, amount)
                   \/ PlayerWallet_spend_currency(currency_type, amount) )
           => /\ Len(console') = Len(console) + 1
              /\ SubSeq(console', 1, Len(console)) = console
              /\ "reason" \in DOMAIN Last(console').context_data
      ]_vars

\* C10 as claimed: a rejected process_transaction leaves the balances, the
\* metrics, the save file, the rollback stack and the backup files as they
\* were, also when allow_rollback = true.
C10_RejectionChangesNothing ==
    [][ ( /\ result'.returned = "False"
          /\ \E player_id \in PlayerArgs, currency \in AnyCurrencyArgs,
                amount \in AnyAmounts, allow_rollback \in BOOLEAN :
                process_transaction(player_id, currency, amount, allow_rollback, Uuid4) )
        => UNCHANGED <<wallets, metrics, main_save_file, rollback_stack, backup_dir>>
      ]_vars

\* C11 as claimed: a process_transaction made with allow_rollback = true
\* over an existing save file reports success only when the backup of the
\* save file as it was before the call has been written and pushed on the
\* rollback stack; a backup that could not be written is reported.
C11_BackupBeforeMutation ==
    [][ result'.call = "process_transaction" =>
           \A player_id \in DOMAIN wallets, currency \in AnyCurrencyArgs,
              amount \in AnyAmounts :
              ( /\ main_save_file # <<>>
                /\ process_transaction(player_id, currency, amount, TRUE, Uuid4)
                /\ result'.returned = "True" )
              => /\ rollback_stack' # <<>>
                 /\ Last(rollback_stack') = backup_file_name(now)
                 /\ Last(rollback_stack') \in DOMAIN backup_dir'
                 /\ backup_dir'[Last(rollback_stack')] = main_save_file[1]
      ]_vars

\* C12 as claimed: after k successful process_transaction calls made in a row
\* with allow_rollback = true, each of the next k rollbacks succeeds, pops
\* the newest entry of the stack, deletes its backup file and restores, to
\* the save file and to memory, the state before the latest transaction not
\* yet rolled back.
C12_RollbacksRestoreInReverse ==
    [][ (backed_up # <<>> /\ rollback_last_transaction)
        => /\ result'.returned = "True"
           /\ rollback_stack' = SubSeq(rollback_stack, 1, Len(rollback_stack) - 1)
           /\ Last(rollback_stack) \notin DOMAIN backup_dir'
           /\ main_save_file' = <<Last(backed_up)>>
           /\ [wallets |-> wallets', metrics |-> metrics'] = Last(backed_up)
      ]_vars

\* C13 as claimed: a request with amount <= 0 is rejected and changes no
\* balance: process_transaction with amount 0, and add_currency and
\* spend_currency of PlayerWallet and WalletService with amount <= 0.
C13_NonPositiveAmountRejected ==
    [][ /\ result'.call = "process_transaction" =>
           \A player_id \in DOMAIN wallets, currency \in AnyCurrencyArgs,
              allow_rollback \in BOOLEAN :
              process_transaction(player_id, currency, 0, allow_rollback, Uuid4)
              => /\ result'.returned = "False"
                 /\ wallets' = wallets
        /\ (program = "logger_function" /\ result'.call \in {"add_currency", "spend_currency"}) =>
           \A currency_type \in WalletCurrencyArgs, amount \in WalletAmounts :
              ( /\ amount <= 0
                /\ \/ PlayerWallet_add_currency(currency_type, amount)
                   \/ PlayerWallet_spend_currency(currency_type, amount) )
              => /\ result'.returned = "False"
                 /\ balances' = balances
        /\ (program = "backend" /\ result'.call \in {"add_currency", "spend_currency"}) =>
           \A user_id \in UserIds, currency_type \in ServiceCurrencyArgs,
              amount \in WalletAmounts :
              ( /\ amount <= 0
                /\ \/ WalletService_add_currency(user_id, currency_type, amount)
                   \/ WalletService_spend_currency(user_id, currency_type, amount) )
              => /\ result'.returned = "False"
                 /\ db_wallets' = db_wallets
      ]_vars

\* a call of create_player, process_transaction or save_game
WritingCall ==
    \/ \E player_id \in PlayerArgs, a \in InitialArgs \cup StackInitialArgs :
          create_player(player_id, a[1], a[2], a[3], a[4], Uuid4)
    \/ \E player_id \in PlayerArgs, currency \in AnyCurrencyArgs, amount \in AnyAmounts,
          allow_rollback \in BOOLEAN :
          process_transaction(player_id, currency, amount, allow_rollback, Uuid4)
    \/ \E make_checkpoint \in BOOLEAN, checkpoint_name \in {"", "week_1"} :
          save_game(make_checkpoint, checkpoint_name)

\* C14 as claimed: a call of create_player, process_transaction or save_game
\* that does not return a failure leaves the save file equal to the state
\* in memory.
C14_WriteFailureSurfaced ==
    [][ ( /\ result'.call \in {"create_player", "process_transaction", "save_game"}
          /\ result'.returned # "False"
          /\ WritingCall )
        => main_save_file' = <<[wallets |-> wallets', metrics |-> metrics']>>
      ]_vars

\* C15 as claimed: load_game over a damaged save file returns something else
\* than it returns when there is no save file, and a system constructed
\* over a damaged save file does not start, without an error, with no
\* wallets.
C15_CorruptStoreReported ==
    [][ (main_save_file # <<>> /\ ~Loads(main_save_file[1]))
        => /\ load_game => result'.returned # load_game_returns(<<>>)
           /\ IntegratedEconomicSystem__init__
                 => ~(wallets' = EmptyDict /\ result'.returned = "None")
      ]_vars


C17_WeeklyDeltaMatchesHistory ==
    program = "economic_dashboard_phase3"
    => \A week_number \in 1..MaxWeek, currency \in TRACKED_CURRENCIES :
           Get(Get(weekly_deltas, week_number, EmptyDict), currency, 0)
           = total(Get(transaction_history, currency, <<>>), week_number, "earn")
             - total(Get(transaction_history, currency, <<>>), week_number, "spend")

\* the lookback_weeks latest weeks that hold a delta
Window(lookback_weeks) ==
    CHOOSE S \in SUBSET DOMAIN weekly_deltas :
        /\ Cardinality(S) = lookback_weeks
        /\ \A a \in S, b \in (DOMAIN weekly_deltas) \ S : a > b

\* the delta held for a week and a currency, 0 when none is held
Held(week_number, currency) == Get(weekly_deltas[week_number], currency, 0)

\* C18: when at least lookback_weeks weeks hold a delta and the oldest delta
\* of the window is not zero, detect_inflation returns
\* rate = (newest - oldest) / |oldest| and is_inflated = (rate > 0.15); a call
\* that returns is_inflated = true appends exactly one WARNING alert to the
\* active alerts and to the alert history, also when the same alert is already
\* there, and a call that returns false appends none.
C18_DetectInflationRateAndAlert ==
    [][(program = "economic_dashboard_phase3" /\ result'.call = "detect_inflation")
       => \A currency_arg \in TrackedCurrencyArgs, lookback_weeks \in LookbackArgs :
              detect_inflation(currency_arg, lookback_weeks)
              => LET currency == legacy_map(Lower(currency_arg))
                     enough == Cardinality(DOMAIN weekly_deltas) >= lookback_weeks
                     oldest == Held(Min(Window(lookback_weeks)), currency)
                     newest == Held(Greatest(Window(lookback_weeks)), currency)
                 IN  /\ (enough /\ oldest # 0)
                        => /\ result'.rate.num * Abs(oldest)
                              = (newest - oldest) * result'.rate.den
                           /\ (result'.returned = "True")
                              <=> ((newest - oldest) * 100
                                     > inflation_threshold * Abs(oldest))
                     /\ IF result'.returned = "True"
                        THEN /\ Len(alert_history') = Len(alert_history) + 1
                             /\ SubSeq(alert_history', 1, Len(alert_history)) = alert_history
                             /\ Last(alert_history').level = "WARNING"
                             /\ Len(active_alerts') = Len(active_alerts) + 1
                             /\ SubSeq(active_alerts', 1, Len(active_alerts)) = active_alerts
                             /\ Last(active_alerts') = Last(alert_history')
                        ELSE /\ alert_history' = alert_history
                             /\ active_alerts' = active_alerts
      ]_vars

\* detect_inflation returned is_inflated = true for the second time, with the
\* alert of the first call still in the list: the same alert is held twice
C18_Witness ==
    /\ program = "economic_dashboard_phase3"
    /\ result.call = "detect_inflation"
    /\ result.returned = "True"
    /\ Len(alert_history) = 2
    /\ alert_history[1] = alert_history[2]
    /\ active_alerts = alert_history

\* what a call returns and leaves in the row when it runs alone
Serial(row, s) ==
    IF s.currency_type \notin VALID_CURRENCIES \/ s.amount < 1
    THEN [row |-> row, returned |-> "False"]
    ELSE IF s.operation = "add"
    THEN [row |-> [row EXCEPT ![s.currency_type] = @ + s.amount], returned |-> "True"]
    ELSE IF row[s.currency_type] < s.amount
    THEN [row |-> row, returned |-> "False"]
    ELSE [row |-> [row EXCEPT ![s.currency_type] = @ - s.amount], returned |-> "True"]

\* C19: when two concurrent add/spend calls on one user's wallet have
\* returned, the balance and the two results are those of one of the two
\* serial orders of the calls.
\* Violated: both handlers read the row before either commits, and the later
\* commit overwrites the earlier one.
C19_ConcurrentCallsSerializable ==
    (/\ program = "backend"
     /\ DOMAIN sessions = Requests
     /\ \A r \in Requests : sessions[r].pc = "done")
    => \E first \in Requests :
           LET second == CHOOSE r \in Requests : r # first
               start == CHOOSE w \in SeededWallets : w # EmptyDict
               s1 == Serial(start[1], sessions[first])
               s2 == Serial(s1.row, sessions[second])
           IN  /\ db_wallets[1] = s2.row
               /\ sessions[first].returned = s1.returned
               /\ sessions[second].returned = s2.returned

\* C20: the journal only grows: a step leaves the transaction log as it is
\* or appends one record at its end; the records already there stay as they
\* are and where they are through rollbacks, saves, checkpoints, loads,
\* restarts and rejected transactions.
C20_JournalOnlyGrows ==
    [][program = "complete_economic_system"
       => \/ transaction_log_file' = transaction_log_file
          \/ /\ Len(transaction_log_file') = Len(transaction_log_file) + 1
             /\ SubSeq(transaction_log_file', 1, Len(transaction_log_file))
                = transaction_log_file
      ]_vars

\* a rollback succeeded with two records in the journal and a checkpoint on disk
C20_Witness ==
    /\ program = "complete_economic_system"
    /\ result.call = "rollback_last_transaction"
    /\ result.returned = "True"
    /\ Len(transaction_log_file) = MaxJournal
    /\ checkpoint_dir # EmptyDict

\* C21: a checkpoint is independent of the rollback stack: what
\* load_checkpoint(name) returns changes only by a create_checkpoint with that
\* name (called directly or by save_game), which makes it the state it was
\* given; saves, backup evictions, transactions and rollbacks leave it alone.
\* create_checkpoint and load_checkpoint called on the state manager leave the
\* rollback stack, the backup files and the main save file as they are, and
\* load_checkpoint returns the checkpoint on disk.
C21_CheckpointIndependentOfStack ==
    [][program = "complete_economic_system"
       => /\ \A name \in DirectCheckpointNames :
                 \/ load_checkpoint(checkpoint_dir', name)
                    = load_checkpoint(checkpoint_dir, name)
                 \/ /\ result'.call \in {"save_game", "create_checkpoint"}
                    /\ \/ state_manager_create_checkpoint(name, _get_game_state)
                       \/ save_game(TRUE, name)
                    /\ load_checkpoint(checkpoint_dir', name) = <<_get_game_state>>
          /\ (/\ result'.call = "load_checkpoint"
              /\ \E name \in DirectCheckpointNames : state_manager_load_checkpoint(name))
             => /\ <<rollback_stack', backup_dir', main_save_file'>>
                   = <<rollback_stack, backup_dir, main_save_file>>
                /\ \E name \in DirectCheckpointNames :
                       result'.value = load_checkpoint(checkpoint_dir, name)
          /\ (/\ result'.call = "create_checkpoint"
              /\ \E name \in DirectCheckpointNames :
                     state_manager_create_checkpoint(name, _get_game_state))
             => <<rollback_stack', backup_dir', main_save_file'>>
                = <<rollback_stack, backup_dir, main_save_file>>
      ]_vars

\* load_checkpoint has just returned a checkpoint that differs from the state
\* the system is in, after a backup was evicted from the full rollback stack
\* and while another checkpoint exists
C21_Witness ==
    /\ program = "complete_economic_system"
    /\ result.call = "load_checkpoint"
    /\ result.returned = "dict"
    /\ result.value # <<_get_game_state>>
    /\ old_backup # <<>>
    /\ DOMAIN checkpoint_dir = DirectCheckpointNames

\* the names of the PlayerWallet's currencies that a caller's name matches
\* without regard to case
WalletNames(currency_type) == {k \in DOMAIN balances : Lower(k) = Lower(currency_type)}

\* C22: a currency name is matched without regard to case and through the
\* legacy aliases before the sufficiency and cap checks: a call made under any
\* name of a currency does what the call under the currency's own name does,
\* the cap of the capped currency included, and a name that stands for no
\* supported currency is rejected (UnsupportedCurrency) and changes no balance.
\* Violated: PlayerWallet.add_currency looks the name up as it is written;
\* "coachingcredit" and "gold" raise KeyError.
C22_NamesResolvedBeforeChecks ==
    [][/\ (program = "complete_economic_system" /\ result'.call = "process_transaction")
          => \A player_id \in DOMAIN wallets, currency \in AnyCurrencyArgs,
                amount \in AnyAmounts, allow_rollback \in BOOLEAN :
                 process_transaction(player_id, currency, amount, allow_rollback, Uuid4)
                 => IF Resolved(currency) \in Currencies
                    THEN process_transaction(player_id, Resolved(currency), amount,
                                             allow_rollback, Uuid4)
                    ELSE /\ result'.returned = "False"
                         /\ wallets' = wallets
                         /\ Len(transaction_log_file') = Len(transaction_log_file) + 1
                         /\ Last(transaction_log_file').context
                            = [failure_reason |-> "UnsupportedCurrency"]
       /\ (program = "logger_function" /\ result'.call = "add_currency")
          => \A currency_type \in WalletCurrencyArgs, amount \in WalletAmounts :
                 PlayerWallet_add_currency(currency_type, amount)
                 => IF WalletNames(currency_type) # {}
                    THEN \E name \in WalletNames(currency_type) :
                             PlayerWallet_add_currency(name, amount)
                    ELSE /\ result'.returned = "False"
                         /\ balances' = balances
      ]_vars

\* what a list holds beyond an earlier value of it
Suffix(later, earlier) == SubSeq(later, Len(earlier) + 1, Len(later))

IsPrefix(earlier, later) ==
    IF Len(earlier) <= Len(later)
    THEN SubSeq(later, 1, Len(earlier)) = earlier
    ELSE FALSE

\* C23: every alert the metrics engine creates is appended, with acknowledged
\* FALSE, to both active_alerts and alert_history; alert_history only grows;
\* and every alert of active_alerts is in alert_history
C23_AlertsOnBothLists ==
    /\ [](\A i \in 1..Len(active_alerts) :
             \E j \in 1..Len(alert_history) : alert_history[j] = active_alerts[i])
    /\ [][IF program = "economic_dashboard_phase3"
          THEN /\ IsPrefix(alert_history, alert_history')
               /\ IsPrefix(active_alerts, active_alerts')
               /\ Suffix(active_alerts', active_alerts)
                      = Suffix(alert_history', alert_history)
               /\ \A i \in Len(alert_history) + 1 .. Len(alert_history') :
                      alert_history'[i].acknowledged = FALSE
          ELSE TRUE
        ]_vars

\* the pressure thresholds raised TypeError after their alert joined, on both
\* lists, the alert of an earlier scarcity heatmap
C23_Witness ==
    /\ program = "economic_dashboard_phase3"
    /\ result = Returned("create_economic_pressure_thresholds", "TypeError")
    /\ Len(alert_history) >= 2
    /\ active_alerts = alert_history
    /\ alert_history[1].message[1] = "High resource scarcity in"
    /\ alert_history[Len(alert_history)].message[1] = "bankruptcy_risk"

\* C24: a get_dashboard_summary call that directly follows another one
\* returns the economic_health the first one returned
C24_SummaryIdempotent ==
    [][IF program = "economic_dashboard_phase3"
       THEN IF result.call = "get_dashboard_summary"
            THEN IF get_dashboard_summary
                 THEN result'.economic_health = result.economic_health
                 ELSE TRUE
            ELSE TRUE
       ELSE TRUE
      ]_vars

\* a summary that reports coins as inflated and all their holders as scarce,
\* returned when earlier summaries had already raised both alerts twice
C24_Witness ==
    /\ program = "economic_dashboard_phase3"
    /\ result.call = "get_dashboard_summary"
    /\ result.economic_health.inflation_rates.coins.is_inflated
    /\ result.economic_health.resource_scarcity["coins"].num = 100
    /\ "signing" \in DOMAIN result.economic_health.bonus_distribution
    /\ Len(alert_history) >= 4
    /\ alert_history[1] = alert_history[3]
    /\ alert_history[2] = alert_history[4]

\* C25: mitigate_inflation returns a plan whose strategies are those of the
\* detected rate (two above 0.30, a third above 0.50, none otherwise) and
\* changes no wallet balance
C25_MitigationPlan ==
    [][IF program = "economic_dashboard_phase3"
       THEN \A currency \in TRACKED_CURRENCIES :
                IF mitigate_inflation(currency)
                THEN IF result'.returned = "dict"
                     THEN /\ result'.strategies =
                                 mitigation_strategies(
                                     detected(Lists, currency, default_lookback_weeks))
                          /\ monitor_wallets' = monitor_wallets
                     ELSE FALSE
                ELSE TRUE
       ELSE TRUE
      ]_vars

\* C26: whatever the state of the journal file (writable or not, parsable or
\* not), process_transaction returns True exactly for a transaction of a known
\* player in a supported currency that the balance and the cap allow, applies
\* its change to the balance, counts it and saves the resulting state; a
\* rejected transaction changes no wallet
C26_JournalFailureDoesNotBlock ==
    [][IF program = "complete_economic_system"
       THEN \A player_id \in StackPlayers, currency_arg \in StackCurrencyArgs,
               amount \in FaultAmounts, allow_rollback \in BOOLEAN :
                IF process_transaction(player_id, currency_arg, amount, allow_rollback, Uuid4)
                THEN LET id == _normalize_player_id(player_id, Uuid4)
                         currency == legacy_map(Lower(currency_arg))
                         type == transaction_type(amount)
                         balance == wallets[id].current_balances[currency]
                         cap == wallets[id].max_capacities["credits"]
                         delta == capped_delta(type, currency, balance, Abs(amount), cap)
                         accepted ==
                             IF id \in DOMAIN wallets
                             THEN /\ ~insufficient(type, balance, Abs(amount))
                                  /\ ~(type = "earn" /\ currency = "credits" /\ delta = 0)
                             ELSE FALSE
                     IN  IF accepted
                         THEN /\ result'.returned = "True"
                              /\ wallets'[id].current_balances[currency] =
                                     IF type = "earn" THEN balance + delta ELSE balance - delta
                              /\ metrics'.total_transactions = metrics.total_transactions + 1
                              /\ main_save_file' = <<[wallets |-> wallets', metrics |-> metrics']>>
                         ELSE /\ result'.returned = "False"
                              /\ wallets' = wallets
                              /\ metrics' = metrics
                ELSE TRUE
       ELSE TRUE
      ]_vars

\* a transaction returned True and its state is saved while the journal,
\* which cannot be written, is still missing
C26_Witness ==
    /\ program = "complete_economic_system"
    /\ result = Returned("process_transaction", "True")
    /\ "transaction_log.json" \in read_only
    /\ transaction_log_file = <<>>
    /\ metrics.total_transactions >= 1
    /\ main_save_file = <<_get_game_state>>

\* the weeks that hold a delta of the currency
WeeksOf(currency) == {w \in DOMAIN weekly_deltas : currency \in DOMAIN weekly_deltas[w]}

\* C27: when fewer than lookback_weeks weeks hold a delta of the currency,
\* detect_inflation returns (False, 0.0), appends no alert and records no rate
C27_ShortHistoryIsQuiet ==
    [][IF program = "economic_dashboard_phase3"
       THEN IF result'.call = "detect_inflation"
            THEN \A currency_arg \in DeltaCurrencyArgs, lookback_weeks \in LookbackArgs :
                     IF detect_inflation(currency_arg, lookback_weeks)
                     THEN IF Cardinality(WeeksOf(legacy_map(Lower(currency_arg))))
                             < lookback_weeks
                          THEN /\ result'.returned = "False"
                               /\ result'.rate.num = 0
                               /\ active_alerts' = active_alerts
                               /\ alert_history' = alert_history
                               /\ inflation_rates' = inflation_rates
                          ELSE TRUE
                     ELSE TRUE
            ELSE TRUE
       ELSE TRUE
      ]_vars

\* C28: a rollback asked for with an empty rollback stack returns False and
\* leaves the save file, the wallets and metrics in memory, the stack, the
\* backup files, the checkpoints and the journal as they are
C28_EmptyRollbackIsNoOp ==
    [][IF program = "complete_economic_system"
       THEN IF rollback_stack = <<>>
            THEN IF Rollback
                 THEN /\ result' = Returned("rollback_last_transaction", "False")
                      /\ UNCHANGED <<wallets, metrics, main_save_file, backup_dir,
                                     rollback_stack, checkpoint_dir, transaction_log_file>>
                 ELSE TRUE
            ELSE TRUE
       ELSE TRUE
      ]_vars

\* a rollback failed for a system that has a player and a save file but never
\* held a backup
C28_Witness ==
    /\ program = "complete_economic_system"
    /\ result = Returned("rollback_last_transaction", "False")
    /\ wallets # EmptyDict
    /\ main_save_file # <<>>
    /\ rollback_stack = <<>>
    /\ backup_dir = EmptyDict
    /\ metrics.total_transactions = 0
    /\ transaction_log_file = <<>>

\* the wallets create_player made for an id: the one under the id when it is
\* canonical, those under generated ids otherwise
CreatedFor(player_id) ==
    IF player_id \in CanonicalUuids
    THEN {player_id} \cap DOMAIN wallets
    ELSE DOMAIN wallets \ CanonicalUuids

\* C29: once create_player(id) has made a wallet, get_player_balance(id)
\* returns that wallet and an earn by process_transaction(id, ...) changes it,
\* for canonical and for other ids
C29_CreatedWalletIsAddressed ==
    [][IF program = "complete_economic_system"
       THEN \A player_id \in IdArgs :
                IF CreatedFor(player_id) = {}
                THEN TRUE
                ELSE IF result'.call = "get_player_balance"
                THEN IF get_player_balance(player_id, Uuid4)
                     THEN \E created \in CreatedFor(player_id) :
                              result'.returned = wallets[created]
                     ELSE TRUE
                ELSE IF result'.call = "process_transaction"
                THEN \A amount \in StackAmounts, allow_rollback \in BOOLEAN :
                         IF process_transaction(player_id, "coins", amount,
                                                allow_rollback, Uuid4)
                         THEN \E created \in CreatedFor(player_id) :
                                  wallets'[created].current_balances["coins"]
                                  = wallets[created].current_balances["coins"] + amount
                         ELSE TRUE
                ELSE TRUE
       ELSE TRUE
      ]_vars

\* C30: the entries of the rollback stack are pairwise distinct and each
\* names a backup file that exists
C30_StackEntriesDistinctAndPresent ==
    IF program = "complete_economic_system"
    THEN /\ \A i, j \in 1..Len(rollback_stack) :
                i # j => rollback_stack[i] # rollback_stack[j]
         /\ \A i \in 1..Len(rollback_stack) : rollback_stack[i] \in DOMAIN backup_dir
    ELSE TRUE
====
